---- MODULE Spec2Model ----
(***************************************************************************)
(* Model of sensorbee's static topology runtime (core: defaultStaticTopology,*)
(* staticNode) as a state machine.                                         *)
(*                                                                         *)
(* Every critical section of stateMutex / srcDstsMutex is one action; a    *)
(* sync.Cond Wait releases the mutex, so the code before the Wait and the  *)
(* code after the wake-up are separate actions.  Calls into user code      *)
(* (StatefulBox.Init / Terminate, Source.GenerateStream / Stop,            *)
(* WriteCloser.Close) are steps of their own, with their result drawn      *)
(* nondeterministically.                                                   *)
(***************************************************************************)
EXTENDS Integers, Sequences, FiniteSets, TLC

\* ----- bounds of the model -----
NumRunners == 2
NumStoppers == 2
NumSources == 2
NumBoxes == 3
PipeCapacity == 2
NumListeners == 2
MaxTuples == 3

Runners == 1..NumRunners
Stoppers == 1..NumStoppers
Sources == 1..NumSources
Boxes == 1..NumBoxes

\* The topology: every Source writes to a Pipe of its own into the node
\* "box"; the node "box" writes to one Pipe into the node "sink".  A Pipe is
\* named by its producer: Source s for the Pipes into "box", BoxPipe for the
\* Pipe into "sink".  A node has one input worker per input Pipe, named by
\* that Pipe.
Nodes == {"box", "sink"}
BoxPipe == 0
Pipes == Sources \cup {BoxPipe}
Inputs(n) == IF n = "box" THEN Sources ELSE {BoxPipe}
NodeOf(w) == IF w = BoxPipe THEN "sink" ELSE "box"

\* Tuple number i of Source s as it leaves Pipe w: InputName is w's label.
Tuple(s, i, w) == [src |-> s, seq |-> i, in |-> w]
Listeners == 1..NumListeners
Free == -1

\* TopologyState and its order.
TSInitialized == "Initialized"
TSStarting == "Starting"
TSRunning == "Running"
TSStopping == "Stopping"
TSStopped == "Stopped"
TopologyStates == {TSInitialized, TSStarting, TSRunning, TSStopping, TSStopped}
Ord(s) ==
    CASE s = TSInitialized -> 0
      [] s = TSStarting -> 1
      [] s = TSRunning -> 2
      [] s = TSStopping -> 3
      [] s = TSStopped -> 4

\* Results of the lifecycle calls.
NoResult == "none"
Success == "nil"
ErrAlreadyStarted == "the static topology has already started"
ErrInit == "Init failed"
ErrStopFailed == "sources couldn't be stopped but the topology has stopped"

VARIABLES
    state,          \* t.state
    srcDsts,        \* keys of t.srcDsts
    closeCnt,       \* per Source: calls of Close on its destination
    srcPc,          \* per Source: position of its worker goroutine
    srcStopResult,  \* per Source: what Source.Stop returned, if called
    nodePc,         \* per node: position of its goroutine
    initCalls,      \* per Box: calls of Init
    termCalls,      \* per Box: calls of Terminate by Run
    termResult,     \* per Box: how its Terminate called by Run ended
    rpc,            \* per Run caller: position in Run
    inited,         \* per Run caller: the local slice inited
    termIdx,        \* per Run caller: Boxes of inited already terminated
    runRet,         \* per Run caller: the value Run returned
    spc,            \* per Stop caller: position in Stop
    stopCase,       \* per Stop caller: the switch case the closure returned from
    stopVisited,    \* per Stop caller: Sources whose Stop it has called
    stopFailures,   \* per Stop caller: the local slice stopFailures
    stopCur,        \* per Stop caller: the Source errHandler is working on
    stopRet,        \* per Stop caller: the value Stop returned
    stopErr,        \* per Stop caller: the Sources its composite error names
    pipe,           \* per Pipe: the tuples buffered in its channel
    accepted,       \* per Pipe: the tuples its Sender.Write has sent, in order
    recvd,          \* per Pipe: the tuples received from its channel, in order
    sent,           \* per Source: Writes of GenerateStream that returned
    budget,         \* tuples the Sources will still emit
    srcPanicked,    \* the Sources whose GenerateStream panicked
    wpc,            \* per input worker: position in its goroutine ("exited":
                    \* the range loop ended, "failed": a fatal error or panic)
    held,           \* per input worker: the tuple t of the range loop
    handed,         \* per input worker: the tuples it passed to sc.dst.Write
    dropped,        \* per input worker: Writes that returned a non-fatal error
    drainer,        \* per Pipe: the drainer goroutine on its receiver
    once,           \* per node: fatalErrorHandler has run
    fpc,            \* per input worker: the setFatal goroutine it started
    fidx,           \* per setFatal goroutine: listeners it has called
    fatalListener,  \* t.fatalListener
    fatalListenerMutex, \* holder of t.fatalListenerMutex, or Free
    lcalls,         \* the listener calls made so far: node name and listener
    groupList,      \* ep.groupList: the GROUP BY expressions of the plan
    projections,    \* ep.projections: the aliases of the plan's projections
    filteredInputRows, \* ep.filteredInputRows: the window, with cached keys
    prevResults,    \* ep.prevResults: a slice (backing array, length)
    curResults,     \* ep.curResults: a slice (backing array, length)
    arrays,         \* the backing arrays of the result slices, by identity
    queryErr        \* what the last performQueryOnBuffer returned

vars == <<state, srcDsts, closeCnt, srcPc, srcStopResult, nodePc, initCalls,
          termCalls, termResult, rpc, inited, termIdx, runRet, spc, stopCase, stopVisited,
          stopFailures, stopCur, stopRet, stopErr, pipe, accepted, recvd, sent,
          budget, srcPanicked, wpc, held, handed, dropped, drainer, once, fpc, fidx, fatalListener,
          fatalListenerMutex, lcalls, groupList, projections, filteredInputRows,
          prevResults, curResults, arrays, queryErr>>

topoVars == <<srcDsts, closeCnt, srcPc, srcStopResult, nodePc>>
boxVars == <<initCalls, termCalls, termResult>>
runVars == <<rpc, inited, termIdx, runRet>>
stopVars == <<spc, stopCase, stopVisited, stopFailures, stopCur, stopRet, stopErr>>
pipeVars == <<pipe, accepted, recvd>>
workerVars == <<wpc, held, handed, dropped>>
fatalVars == <<drainer, once, fpc, fidx>>
listenerVars == <<fatalListener, fatalListenerMutex, lcalls>>
flowVars == <<pipeVars, sent, budget, srcPanicked, workerVars, fatalVars, listenerVars>>
planVars == <<groupList, projections>>
queryVars == <<planVars, filteredInputRows, prevResults, curResults, arrays, queryErr>>

Range(f) == {f[i] : i \in DOMAIN f}

\* The backing arrays a result slice can point to; a nil slice has none.
ArrayIds == {"A", "B", "C"}
NilArray == "nil"
NilSlice == [arr |-> NilArray, len |-> 0]

\* The topology runs no grouping query.
NoPlan == groupList = <<>> /\ projections = <<>>

Constructed ==
    /\ state = TSInitialized
    /\ srcDsts = Sources
    /\ closeCnt = [s \in Sources |-> 0]
    /\ srcPc = [s \in Sources |-> "notstarted"]
    /\ srcStopResult = [s \in Sources |-> "none"]
    /\ nodePc = [n \in Nodes |-> "notstarted"]
    /\ initCalls = [b \in Boxes |-> 0]
    /\ termCalls = [b \in Boxes |-> 0]
    /\ termResult = [b \in Boxes |-> "none"]
    /\ rpc = [p \in Runners |-> "idle"]
    /\ inited = [p \in Runners |-> <<>>]
    /\ termIdx = [p \in Runners |-> 0]
    /\ runRet = [p \in Runners |-> NoResult]
    /\ spc = [q \in Stoppers |-> "idle"]
    /\ stopCase = [q \in Stoppers |-> "none"]
    /\ stopVisited = [q \in Stoppers |-> {}]
    /\ stopFailures = [q \in Stoppers |-> <<>>]
    /\ stopCur = [q \in Stoppers |-> 0]
    /\ stopRet = [q \in Stoppers |-> NoResult]
    /\ stopErr = [q \in Stoppers |-> {}]
    /\ pipe = [w \in Pipes |-> <<>>]
    /\ accepted = [w \in Pipes |-> <<>>]
    /\ recvd = [w \in Pipes |-> <<>>]
    /\ sent = [s \in Sources |-> 0]
    /\ srcPanicked = {}
    /\ wpc = [w \in Pipes |-> "notstarted"]
    /\ held = [w \in Pipes |-> <<>>]
    /\ handed = [w \in Pipes |-> <<>>]
    /\ dropped = [w \in Pipes |-> 0]
    /\ drainer = [w \in Pipes |-> "none"]
    /\ once = [n \in Nodes |-> FALSE]
    /\ fpc = [w \in Pipes |-> "none"]
    /\ fidx = [w \in Pipes |-> 0]
    /\ fatalListener = <<>>
    /\ fatalListenerMutex = Free
    /\ lcalls = <<>>
    /\ filteredInputRows = <<>>
    /\ prevResults = NilSlice
    /\ curResults = NilSlice
    /\ arrays = [a \in ArrayIds |-> <<>>]
    /\ queryErr = NoResult

\* The topology after construction, with Sources that emit no tuple.
Init == Constructed /\ budget = 0 /\ NoPlan

\* The callers are numbered in the order of their calls: caller c is called
\* only after every caller below it.
Called(pc, c) == \A d \in DOMAIN pc : d < c => pc[d] # "idle"

\* wait(s) returns at once exactly when the loop condition t.state < s is false.
WaitOver(s) == Ord(state) >= Ord(s)

\* ----- Run -----

\* RunCheckState that lets a stopped topology be run again: TSStopped is
\* handled like TSInitialized.
RunCheckState_Restart(p) ==
    /\ rpc[p] = "idle"
    /\ Called(rpc, p)
    /\ CASE state \in {TSInitialized, TSStopped} ->
              /\ state' = TSStarting
              /\ rpc' = [rpc EXCEPT ![p] = "init"]
              /\ UNCHANGED runRet
         [] state = TSStarting ->
              /\ rpc' = [rpc EXCEPT ![p] = "waitRunning"]
              /\ UNCHANGED <<state, runRet>>
         [] OTHER ->
              /\ rpc' = [rpc EXCEPT ![p] = "done"]
              /\ runRet' = [runRet EXCEPT ![p] = ErrAlreadyStarted]
              /\ UNCHANGED state
    /\ UNCHANGED <<inited, termIdx, topoVars, boxVars, stopVars, flowVars, queryVars>>

\* RunCheckState with the TSStarting case returning the error at once, without
\* t.wait(TSRunning).
RunCheckState_NoWait(p) ==
    /\ rpc[p] = "idle"
    /\ Called(rpc, p)
    /\ CASE state = TSInitialized ->
              /\ state' = TSStarting
              /\ rpc' = [rpc EXCEPT ![p] = "init"]
              /\ UNCHANGED runRet
         [] OTHER ->
              /\ rpc' = [rpc EXCEPT ![p] = "done"]
              /\ runRet' = [runRet EXCEPT ![p] = ErrAlreadyStarted]
              /\ UNCHANGED state
    /\ UNCHANGED <<inited, termIdx, topoVars, boxVars, stopVars, flowVars, queryVars>>

\* RunCheckState with defer t.setState(TSStopped) moved to the head of Run: the
\* error return sets TSStopped too.
RunCheckState_DeferAtHead(p) ==
    /\ rpc[p] = "idle"
    /\ Called(rpc, p)
    /\ CASE state = TSInitialized ->
              /\ state' = TSStarting
              /\ rpc' = [rpc EXCEPT ![p] = "init"]
              /\ UNCHANGED runRet
         [] state = TSStarting ->
              /\ rpc' = [rpc EXCEPT ![p] = "waitRunning"]
              /\ UNCHANGED <<state, runRet>>
         [] OTHER ->
              /\ rpc' = [rpc EXCEPT ![p] = "done"]
              /\ runRet' = [runRet EXCEPT ![p] = ErrAlreadyStarted]
              /\ state' = TSStopped
    /\ UNCHANGED <<inited, termIdx, topoVars, boxVars, stopVars, flowVars, queryVars>>

\* checkState, entered with the mutex free.
RunCheckState(p) ==
    /\ rpc[p] = "idle"
    /\ Called(rpc, p)
    /\ CASE state = TSInitialized ->
              /\ state' = TSStarting
              /\ rpc' = [rpc EXCEPT ![p] = "init"]
              /\ UNCHANGED runRet
         [] state = TSStarting ->
              /\ rpc' = [rpc EXCEPT ![p] = "waitRunning"]
              /\ UNCHANGED <<state, runRet>>
         [] OTHER ->
              /\ rpc' = [rpc EXCEPT ![p] = "done"]
              /\ runRet' = [runRet EXCEPT ![p] = ErrAlreadyStarted]
              /\ UNCHANGED state
    /\ UNCHANGED <<inited, termIdx, topoVars, boxVars, stopVars, flowVars, queryVars>>

\* checkState, woken from t.wait(TSRunning): falls through to the error.
RunWaitRunning(p) ==
    /\ rpc[p] = "waitRunning"
    /\ WaitOver(TSRunning)
    /\ rpc' = [rpc EXCEPT ![p] = "done"]
    /\ runRet' = [runRet EXCEPT ![p] = ErrAlreadyStarted]
    /\ UNCHANGED <<state, inited, termIdx, topoVars, boxVars, stopVars, flowVars, queryVars>>

\* RunInitBox with defer t.setState(TSStopped) placed after the loop: an Init
\* error returns without it.
RunInitBox_NoDefer(p, b, ok) ==
    /\ rpc[p] = "init"
    /\ b \notin Range(inited[p])
    /\ initCalls' = [initCalls EXCEPT ![b] = @ + 1]
    /\ IF ok
         THEN /\ inited' = [inited EXCEPT ![p] = Append(@, b)]
              /\ UNCHANGED <<rpc, runRet>>
         ELSE /\ rpc' = [rpc EXCEPT ![p] = "done"]
              /\ runRet' = [runRet EXCEPT ![p] = ErrInit]
              /\ UNCHANGED inited
    /\ UNCHANGED <<state, termCalls, termResult, termIdx, topoVars, stopVars, flowVars, queryVars>>

\* One iteration of the loop over t.boxes: sbox.Init(ctx) returns ok or an error.
RunInitBox(p, b, ok) ==
    /\ rpc[p] = "init"
    /\ b \notin Range(inited[p])
    /\ initCalls' = [initCalls EXCEPT ![b] = @ + 1]
    /\ IF ok
         THEN /\ inited' = [inited EXCEPT ![p] = Append(@, b)]
              /\ UNCHANGED <<rpc, runRet>>
         ELSE /\ rpc' = [rpc EXCEPT ![p] = IF inited[p] = <<>> THEN "deferred" ELSE "terminate"]
              /\ runRet' = [runRet EXCEPT ![p] = ErrInit]
              /\ UNCHANGED inited
    /\ UNCHANGED <<state, termCalls, termResult, termIdx, topoVars, stopVars, flowVars, queryVars>>

\* RunTerminateBox without the deferred recover around Terminate: a panic of
\* Terminate unwinds Run, past the rest of the loop, to its deferred setState.
RunTerminateBox_NoRecover(p, outcome) ==
    /\ rpc[p] = "terminate"
    /\ LET n == inited[p][termIdx[p] + 1]
       IN  /\ termCalls' = [termCalls EXCEPT ![n] = @ + 1]
           /\ termResult' = [termResult EXCEPT ![n] = outcome]
    /\ termIdx' = [termIdx EXCEPT ![p] = @ + 1]
    /\ rpc' = [rpc EXCEPT ![p] = IF outcome = "panic" \/ termIdx[p] + 1 = Len(inited[p])
                                   THEN "deferred" ELSE "terminate"]
    /\ UNCHANGED <<state, initCalls, inited, runRet, topoVars, stopVars, flowVars, queryVars>>

\* One iteration of the loop over inited after an Init error: Terminate of the
\* first Box not yet terminated; its error or panic is logged and dropped.
RunTerminateBox(p, outcome) ==
    /\ rpc[p] = "terminate"
    /\ LET n == inited[p][termIdx[p] + 1]
       IN  /\ termCalls' = [termCalls EXCEPT ![n] = @ + 1]
           /\ termResult' = [termResult EXCEPT ![n] = outcome]
    /\ termIdx' = [termIdx EXCEPT ![p] = @ + 1]
    /\ rpc' = [rpc EXCEPT ![p] = IF termIdx[p] + 1 = Len(inited[p]) THEN "deferred" ELSE "terminate"]
    /\ UNCHANGED <<state, initCalls, inited, runRet, topoVars, stopVars, flowVars, queryVars>>

\* run: the go statements of the node goroutines and of the Source goroutines
\* (Run's local inited is dead from here on).
RunSpawn(p) ==
    /\ rpc[p] = "init"
    /\ Range(inited[p]) = Boxes
    /\ nodePc' = [n \in Nodes |-> "running"]
    /\ wpc' = [w \in Pipes |-> "recv"]
    /\ srcPc' = [s \in Sources |-> "generating"]
    /\ rpc' = [rpc EXCEPT ![p] = "setRunning"]
    /\ inited' = [inited EXCEPT ![p] = <<>>]
    /\ UNCHANGED <<state, srcDsts, closeCnt, srcStopResult, termIdx,
                   runRet, boxVars, stopVars, pipeVars, sent, budget, srcPanicked, held, handed,
                   dropped, fatalVars, listenerVars, queryVars>>

\* run: t.setState(TSRunning).
RunSetRunning(p) ==
    /\ rpc[p] = "setRunning"
    /\ state' = TSRunning
    /\ rpc' = [rpc EXCEPT ![p] = "wgWait"]
    /\ UNCHANGED <<inited, termIdx, runRet, topoVars, boxVars, stopVars, flowVars, queryVars>>

\* The WaitGroup of run is at zero: every goroutine has called wg.Done.
WgDone ==
    /\ \A n \in Nodes : nodePc[n] = "done"
    /\ \A s \in Sources : srcPc[s] = "done"

\* run: wg.Wait() returns, run returns nil.
RunWgWait(p) ==
    /\ rpc[p] = "wgWait"
    /\ WgDone
    /\ rpc' = [rpc EXCEPT ![p] = "deferred"]
    /\ runRet' = [runRet EXCEPT ![p] = Success]
    /\ UNCHANGED <<state, inited, termIdx, topoVars, boxVars, stopVars, flowVars, queryVars>>

\* defer t.setState(TSStopped), then Run returns.
RunDeferred(p) ==
    /\ rpc[p] = "deferred"
    /\ state' = TSStopped
    /\ rpc' = [rpc EXCEPT ![p] = "done"]
    /\ UNCHANGED <<inited, termIdx, runRet, topoVars, boxVars, stopVars, flowVars, queryVars>>

\* ----- goroutines started by run -----

\* closeDestination whose closure forgets delete(t.srcDsts, src).
CloseDestinationTake_NoDelete(src) == srcDsts

\* closeDestination, the closure under srcDstsMutex: the entry of src, deleted.
CloseDestinationTake(src) == srcDsts \ {src}

\* Source goroutine: src.GenerateStream returns (exhausted, stopped, an error)
\* or panics; the deferred function recovers and goes on to closeDestination.
SourceGenerateReturns(s) ==
    /\ srcPc[s] = "generating"
    /\ srcPc' = [srcPc EXCEPT ![s] = "closeDestination"]
    /\ UNCHANGED <<state, srcDsts, closeCnt, srcStopResult, nodePc, boxVars,
                   runVars, stopVars, flowVars, queryVars>>

\* Source goroutine: closeDestination's locked lookup; no entry: return nil,
\* then wg.Done.
SourceCloseLookup(s) ==
    /\ srcPc[s] = "closeDestination"
    /\ srcDsts' = CloseDestinationTake(s)
    /\ srcPc' = [srcPc EXCEPT ![s] = IF s \in srcDsts THEN "close" ELSE "done"]
    /\ UNCHANGED <<state, closeCnt, srcStopResult, nodePc, boxVars, runVars,
                   stopVars, flowVars, queryVars>>

\* Source goroutine: dst.Close(ctx), then wg.Done.
SourceClose(s) ==
    /\ srcPc[s] = "close"
    /\ closeCnt' = [closeCnt EXCEPT ![s] = @ + 1]
    /\ srcPc' = [srcPc EXCEPT ![s] = "done"]
    /\ UNCHANGED <<state, srcDsts, srcStopResult, nodePc, boxVars, runVars,
                   stopVars, flowVars, queryVars>>

\* The sender of Pipe w has closed the channel: the writer of a Source is
\* closed by closeDestination, the writer of a node by the end of its run.
Closed(w) == IF w = BoxPipe THEN nodePc["box"] = "done" ELSE closeCnt[w] > 0

\* Node goroutine, when no tuple is in flight: every input channel is closed
\* and empty, so every input worker leaves its range loop; wg.Wait returns,
\* the node closes its destination.
NodeReturns(n) ==
    /\ nodePc[n] = "running"
    /\ \A w \in Inputs(n) : wpc[w] = "recv" /\ pipe[w] = <<>> /\ Closed(w)
    /\ wpc' = [w \in Pipes |-> IF w \in Inputs(n) THEN "exited" ELSE wpc[w]]
    /\ nodePc' = [nodePc EXCEPT ![n] = "done"]
    /\ UNCHANGED <<state, srcDsts, closeCnt, srcPc, srcStopResult, boxVars,
                   runVars, stopVars, pipeVars, sent, budget, srcPanicked, held, handed, dropped,
                   fatalVars, listenerVars, queryVars>>

\* ----- Stop -----

\* StopSwitch with TSStarting handled like TSInitialized: no wait, TSStopped at once.
StopSwitch_StartingAsInitialized(q) ==
    CASE state = TSInitialized ->
           /\ state' = TSStopped
           /\ spc' = [spc EXCEPT ![q] = "done"]
           /\ stopCase' = [stopCase EXCEPT ![q] = TSInitialized]
           /\ stopRet' = [stopRet EXCEPT ![q] = Success]
      [] state = TSStarting ->
           /\ state' = TSStopped
           /\ spc' = [spc EXCEPT ![q] = "done"]
           /\ stopCase' = [stopCase EXCEPT ![q] = TSStarting]
           /\ stopRet' = [stopRet EXCEPT ![q] = Success]
      [] state = TSRunning ->
           /\ state' = TSStopping
           /\ spc' = [spc EXCEPT ![q] = "stopSources"]
           /\ stopCase' = [stopCase EXCEPT ![q] = TSRunning]
           /\ UNCHANGED stopRet
      [] state = TSStopping ->
           /\ spc' = [spc EXCEPT ![q] = "waitStopped"]
           /\ stopCase' = [stopCase EXCEPT ![q] = TSStopping]
           /\ UNCHANGED <<state, stopRet>>
      [] state = TSStopped ->
           /\ spc' = [spc EXCEPT ![q] = "done"]
           /\ stopCase' = [stopCase EXCEPT ![q] = TSStopped]
           /\ stopRet' = [stopRet EXCEPT ![q] = Success]
           /\ UNCHANGED state

\* StopSwitch with TSStarting handled like TSRunning: no wait, on to stopping Sources.
StopSwitch_StartingAsRunning(q) ==
    CASE state = TSInitialized ->
           /\ state' = TSStopped
           /\ spc' = [spc EXCEPT ![q] = "done"]
           /\ stopCase' = [stopCase EXCEPT ![q] = TSInitialized]
           /\ stopRet' = [stopRet EXCEPT ![q] = Success]
      [] state = TSStarting ->
           /\ state' = TSStopping
           /\ spc' = [spc EXCEPT ![q] = "stopSources"]
           /\ stopCase' = [stopCase EXCEPT ![q] = TSStarting]
           /\ UNCHANGED stopRet
      [] state = TSRunning ->
           /\ state' = TSStopping
           /\ spc' = [spc EXCEPT ![q] = "stopSources"]
           /\ stopCase' = [stopCase EXCEPT ![q] = TSRunning]
           /\ UNCHANGED stopRet
      [] state = TSStopping ->
           /\ spc' = [spc EXCEPT ![q] = "waitStopped"]
           /\ stopCase' = [stopCase EXCEPT ![q] = TSStopping]
           /\ UNCHANGED <<state, stopRet>>
      [] state = TSStopped ->
           /\ spc' = [spc EXCEPT ![q] = "done"]
           /\ stopCase' = [stopCase EXCEPT ![q] = TSStopped]
           /\ stopRet' = [stopRet EXCEPT ![q] = Success]
           /\ UNCHANGED state

\* StopSwitch with the TSStopping case returning without t.wait(TSStopped).
StopSwitch_StoppingNoWait(q) ==
    CASE state = TSInitialized ->
           /\ state' = TSStopped
           /\ spc' = [spc EXCEPT ![q] = "done"]
           /\ stopCase' = [stopCase EXCEPT ![q] = TSInitialized]
           /\ stopRet' = [stopRet EXCEPT ![q] = Success]
      [] state = TSStarting ->
           /\ spc' = [spc EXCEPT ![q] = "waitRunning"]
           /\ UNCHANGED <<state, stopCase, stopRet>>
      [] state = TSRunning ->
           /\ state' = TSStopping
           /\ spc' = [spc EXCEPT ![q] = "stopSources"]
           /\ stopCase' = [stopCase EXCEPT ![q] = TSRunning]
           /\ UNCHANGED stopRet
      [] state = TSStopping ->
           /\ spc' = [spc EXCEPT ![q] = "done"]
           /\ stopCase' = [stopCase EXCEPT ![q] = TSStopping]
           /\ stopRet' = [stopRet EXCEPT ![q] = Success]
           /\ UNCHANGED state
      [] state = TSStopped ->
           /\ spc' = [spc EXCEPT ![q] = "done"]
           /\ stopCase' = [stopCase EXCEPT ![q] = TSStopped]
           /\ stopRet' = [stopRet EXCEPT ![q] = Success]
           /\ UNCHANGED state

\* StopSwitch without a TSStopping case of its own: a second Stop stops the Sources again.
StopSwitch_StoppingAsRunning(q) ==
    CASE state = TSInitialized ->
           /\ state' = TSStopped
           /\ spc' = [spc EXCEPT ![q] = "done"]
           /\ stopCase' = [stopCase EXCEPT ![q] = TSInitialized]
           /\ stopRet' = [stopRet EXCEPT ![q] = Success]
      [] state = TSStarting ->
           /\ spc' = [spc EXCEPT ![q] = "waitRunning"]
           /\ UNCHANGED <<state, stopCase, stopRet>>
      [] state = TSRunning ->
           /\ state' = TSStopping
           /\ spc' = [spc EXCEPT ![q] = "stopSources"]
           /\ stopCase' = [stopCase EXCEPT ![q] = TSRunning]
           /\ UNCHANGED stopRet
      [] state = TSStopping ->
           /\ spc' = [spc EXCEPT ![q] = "stopSources"]
           /\ stopCase' = [stopCase EXCEPT ![q] = TSStopping]
           /\ UNCHANGED <<state, stopRet>>
      [] state = TSStopped ->
           /\ spc' = [spc EXCEPT ![q] = "done"]
           /\ stopCase' = [stopCase EXCEPT ![q] = TSStopped]
           /\ stopRet' = [stopRet EXCEPT ![q] = Success]
           /\ UNCHANGED state

\* The switch of Stop's closure on t.state, evaluated with the mutex held.
StopSwitch(q) ==
    CASE state = TSInitialized ->
           /\ state' = TSStopped
           /\ spc' = [spc EXCEPT ![q] = "done"]
           /\ stopCase' = [stopCase EXCEPT ![q] = TSInitialized]
           /\ stopRet' = [stopRet EXCEPT ![q] = Success]
      [] state = TSStarting ->
           /\ spc' = [spc EXCEPT ![q] = "waitRunning"]
           /\ UNCHANGED <<state, stopCase, stopRet>>
      [] state = TSRunning ->
           /\ state' = TSStopping
           /\ spc' = [spc EXCEPT ![q] = "stopSources"]
           /\ stopCase' = [stopCase EXCEPT ![q] = TSRunning]
           /\ UNCHANGED stopRet
      [] state = TSStopping ->
           /\ spc' = [spc EXCEPT ![q] = "waitStopped"]
           /\ stopCase' = [stopCase EXCEPT ![q] = TSStopping]
           /\ UNCHANGED <<state, stopRet>>
      [] state = TSStopped ->
           /\ spc' = [spc EXCEPT ![q] = "done"]
           /\ stopCase' = [stopCase EXCEPT ![q] = TSStopped]
           /\ stopRet' = [stopRet EXCEPT ![q] = Success]
           /\ UNCHANGED state

\* Stop is called: lock, first iteration of the for loop.
StopEnter(q) ==
    /\ spc[q] = "idle"
    /\ Called(spc, q)
    /\ StopSwitch(q)
    /\ UNCHANGED <<stopVisited, stopFailures, stopCur, stopErr, topoVars, boxVars, runVars, flowVars,
                   queryVars>>

\* case TSStarting, woken from t.wait(TSRunning): next iteration of the loop.
StopWaitRunning(q) ==
    /\ spc[q] = "waitRunning"
    /\ WaitOver(TSRunning)
    /\ StopSwitch(q)
    /\ UNCHANGED <<stopVisited, stopFailures, stopCur, stopErr, topoVars, boxVars, runVars, flowVars,
                   queryVars>>

\* case TSStopping, or the end of Stop: t.wait(TSStopped) returns, Stop returns nil.
StopWaitStopped(q) ==
    /\ spc[q] = "waitStopped"
    /\ WaitOver(TSStopped)
    /\ spc' = [spc EXCEPT ![q] = "done"]
    /\ stopRet' = [stopRet EXCEPT ![q] = Success]
    /\ UNCHANGED <<state, stopCase, stopVisited, stopFailures, stopCur, stopErr,
                   topoVars, boxVars, runVars, flowVars, queryVars>>

\* StopSource with an errHandler that records the failure but does not call
\* closeDestination.
StopSource_NoClose(q, s, outcome) ==
    /\ spc[q] = "stopSources"
    /\ s \notin stopVisited[q]
    /\ stopVisited' = [stopVisited EXCEPT ![q] = @ \cup {s}]
    /\ srcStopResult' = [srcStopResult EXCEPT ![s] = IF outcome = "ok" THEN "ok" ELSE "failed"]
    /\ IF outcome = "ok"
         THEN UNCHANGED stopFailures
         ELSE stopFailures' = [stopFailures EXCEPT ![q] = Append(@, s)]
    /\ UNCHANGED <<spc, stopCur, state, stopCase, stopRet, stopErr, srcDsts, closeCnt,
                   srcPc, nodePc, boxVars, runVars, flowVars, queryVars>>

\* StopSource that runs errHandler after every src.Stop, failed or not.
StopSource_CloseAlways(q, s, outcome) ==
    /\ spc[q] = "stopSources"
    /\ s \notin stopVisited[q]
    /\ stopVisited' = [stopVisited EXCEPT ![q] = @ \cup {s}]
    /\ srcStopResult' = [srcStopResult EXCEPT ![s] = IF outcome = "ok" THEN "ok" ELSE "failed"]
    /\ IF outcome = "ok"
         THEN UNCHANGED stopFailures
         ELSE stopFailures' = [stopFailures EXCEPT ![q] = Append(@, s)]
    /\ stopCur' = [stopCur EXCEPT ![q] = s]
    /\ spc' = [spc EXCEPT ![q] = "closeDestination"]
    /\ UNCHANGED <<state, stopCase, stopRet, stopErr, srcDsts, closeCnt, srcPc,
                   nodePc, boxVars, runVars, flowVars, queryVars>>

\* One iteration of the loop over t.srcs: src.Stop(ctx) returns nil ("ok"),
\* returns an error ("error") or panics ("panic"); the last two run errHandler.
StopSource(q, s, outcome) ==
    /\ spc[q] = "stopSources"
    /\ s \notin stopVisited[q]
    /\ stopVisited' = [stopVisited EXCEPT ![q] = @ \cup {s}]
    /\ srcStopResult' = [srcStopResult EXCEPT ![s] = IF outcome = "ok" THEN "ok" ELSE "failed"]
    /\ IF outcome = "ok"
         THEN UNCHANGED <<spc, stopFailures, stopCur>>
         ELSE /\ stopFailures' = [stopFailures EXCEPT ![q] = Append(@, s)]
              /\ stopCur' = [stopCur EXCEPT ![q] = s]
              /\ spc' = [spc EXCEPT ![q] = "closeDestination"]
    /\ UNCHANGED <<state, stopCase, stopRet, stopErr, srcDsts, closeCnt, srcPc,
                   nodePc, boxVars, runVars, flowVars, queryVars>>

\* errHandler: closeDestination's locked lookup.
StopCloseLookup(q) ==
    /\ spc[q] = "closeDestination"
    /\ srcDsts' = CloseDestinationTake(stopCur[q])
    /\ IF stopCur[q] \in srcDsts
         THEN /\ spc' = [spc EXCEPT ![q] = "close"]
              /\ UNCHANGED stopCur
         ELSE /\ spc' = [spc EXCEPT ![q] = "stopSources"]
              /\ stopCur' = [stopCur EXCEPT ![q] = 0]
    /\ UNCHANGED <<state, stopCase, stopVisited, stopFailures, stopRet, stopErr,
                   closeCnt, srcPc, srcStopResult, nodePc, boxVars, runVars, flowVars, queryVars>>

\* errHandler: dst.Close(ctx).
StopClose(q) ==
    /\ spc[q] = "close"
    /\ closeCnt' = [closeCnt EXCEPT ![stopCur[q]] = @ + 1]
    /\ spc' = [spc EXCEPT ![q] = "stopSources"]
    /\ stopCur' = [stopCur EXCEPT ![q] = 0]
    /\ UNCHANGED <<state, stopCase, stopVisited, stopFailures, stopRet, stopErr,
                   srcDsts, srcPc, srcStopResult, nodePc, boxVars, runVars, flowVars, queryVars>>

\* A Stop that returns nil after the loop without t.wait(TSStopped).
StopFinish_NoWait(q) ==
    /\ spc[q] = "stopSources"
    /\ stopVisited[q] = Sources
    /\ spc' = [spc EXCEPT ![q] = "done"]
    /\ IF Len(stopFailures[q]) > 0
         THEN /\ state' = TSStopped
              /\ stopRet' = [stopRet EXCEPT ![q] = ErrStopFailed]
              /\ stopErr' = [stopErr EXCEPT ![q] = Range(stopFailures[q])]
              /\ stopFailures' = [stopFailures EXCEPT ![q] = <<>>]
         ELSE /\ stopRet' = [stopRet EXCEPT ![q] = Success]
              /\ UNCHANGED <<state, stopErr, stopFailures>>
    /\ UNCHANGED <<stopCase, stopVisited, stopCur, topoVars, boxVars, runVars, flowVars, queryVars>>

\* After the loop: lock; failures force TSStopped and return the composite
\* error, which lists the names in stopFailures; otherwise t.wait(TSStopped).
StopFinish(q) ==
    /\ spc[q] = "stopSources"
    /\ stopVisited[q] = Sources
    /\ IF Len(stopFailures[q]) > 0
         THEN /\ state' = TSStopped
              /\ spc' = [spc EXCEPT ![q] = "done"]
              /\ stopRet' = [stopRet EXCEPT ![q] = ErrStopFailed]
              /\ stopErr' = [stopErr EXCEPT ![q] = Range(stopFailures[q])]
              /\ stopFailures' = [stopFailures EXCEPT ![q] = <<>>]
         ELSE /\ spc' = [spc EXCEPT ![q] = "waitStopped"]
              /\ UNCHANGED <<state, stopRet, stopErr, stopFailures>>
    /\ UNCHANGED <<stopCase, stopVisited, stopCur, topoVars, boxVars, runVars, flowVars, queryVars>>

\* ----- Pipes -----

callVars == <<state, boxVars, runVars, stopVars>>

\* A tuple before any Pipe has stamped it.
Unstamped == -2

\* Tuple t with InputName set to the label of Pipe w.
Stamped(t, w) == [t EXCEPT !.in = w]

\* The log of the Writes that Pipe w has accepted, after tuple t.
Logged(a, w, t) == [a EXCEPT ![w] = Append(@, Stamped(t, w))]

\* A staticPipeSender.Write that sends the tuple without setting InputName.
Sent_NoStamp(p, w, t) == [p EXCEPT ![w] = Append(@, t)]

\* staticPipeSender.Write: t.InputName = s.inputName, then the channel send.
\* The pipes after Pipe w has accepted tuple t.
Sent(p, w, t) == [p EXCEPT ![w] = Append(@, Stamped(t, w))]

\* The channel send goes through while the buffer has room; on a closed
\* channel it panics instead (see the callers).
HasRoom(w) == ~Closed(w) /\ Len(pipe[w]) < PipeCapacity

\* A receive from the channel of Pipe w takes the oldest buffered tuple.
Received(p, w) == [p EXCEPT ![w] = Tail(@)]

\* A range loop that ends as soon as the channel is closed.
PipeEnded_NoDrain(w) == Closed(w)

\* "for t := range in.in" ends: the channel is closed and drained.
PipeEnded(w) == Closed(w) /\ pipe[w] = <<>>

\* ----- Source goroutine: Writes of GenerateStream -----

\* The Sources have another tuple to emit.
MoreTuples == budget > 0

\* GenerateStream calls w.Write with its next tuple and the Write returns, or
\* its blocked Write returns.
SourceWrite(s) ==
    /\ \/ srcPc[s] = "generating" /\ MoreTuples /\ budget' = budget - 1
       \/ srcPc[s] = "writing" /\ UNCHANGED budget
    /\ HasRoom(s)
    /\ pipe' = Sent(pipe, s, Tuple(s, sent[s] + 1, Unstamped))
    /\ accepted' = Logged(accepted, s, Tuple(s, sent[s] + 1, Unstamped))
    /\ sent' = [sent EXCEPT ![s] = @ + 1]
    /\ srcPc' = [srcPc EXCEPT ![s] = "generating"]
    /\ UNCHANGED <<callVars, srcDsts, closeCnt, srcStopResult, nodePc, recvd,
                   srcPanicked, workerVars, fatalVars, listenerVars, queryVars>>

\* GenerateStream calls w.Write with its next tuple while the buffer is full:
\* the send blocks.
SourceWriteBlocks(s) ==
    /\ srcPc[s] = "generating"
    /\ MoreTuples
    /\ ~Closed(s)
    /\ Len(pipe[s]) >= PipeCapacity
    /\ budget' = budget - 1
    /\ srcPc' = [srcPc EXCEPT ![s] = "writing"]
    /\ UNCHANGED <<callVars, srcDsts, closeCnt, srcStopResult, nodePc, pipeVars,
                   sent, srcPanicked, workerVars, fatalVars, listenerVars, queryVars>>

\* A Write on a channel that Stop's errHandler has closed panics; the deferred
\* function of the Source goroutine recovers and goes on to closeDestination.
SourceWritePanics(s) ==
    /\ \/ srcPc[s] = "writing"
       \/ srcPc[s] = "generating" /\ MoreTuples
    /\ Closed(s)
    /\ srcPc' = [srcPc EXCEPT ![s] = "closeDestination"]
    /\ srcPanicked' = srcPanicked \cup {s}
    /\ UNCHANGED <<callVars, srcDsts, closeCnt, srcStopResult, nodePc, pipeVars,
                   sent, budget, workerVars, fatalVars, listenerVars, queryVars>>

\* A Source goroutine without the deferred function: the panic ends it, with
\* neither closeDestination nor recovery.
SourceGeneratePanics_NoDefer(s) ==
    /\ srcPc[s] = "generating"
    /\ srcPc' = [srcPc EXCEPT ![s] = "done"]
    /\ srcPanicked' = srcPanicked \cup {s}
    /\ UNCHANGED <<callVars, srcDsts, closeCnt, srcStopResult, nodePc, pipeVars,
                   sent, budget, workerVars, fatalVars, listenerVars, queryVars>>

\* GenerateStream itself panics: the deferred function of the Source goroutine
\* recovers, logs, and goes on to closeDestination.
SourceGeneratePanics(s) ==
    /\ srcPc[s] = "generating"
    /\ srcPc' = [srcPc EXCEPT ![s] = "closeDestination"]
    /\ srcPanicked' = srcPanicked \cup {s}
    /\ UNCHANGED <<callVars, srcDsts, closeCnt, srcStopResult, nodePc, pipeVars,
                   sent, budget, workerVars, fatalVars, listenerVars, queryVars>>

\* ----- staticNode.run: input workers -----

\* A fatalErrorHandler that is no sync.Once: the function runs on every call.
FatalErrorHandlerDo_NoOnce(w) ==
    /\ once' = [once EXCEPT ![NodeOf(w)] = TRUE]
    /\ fpc' = [fpc EXCEPT ![w] = "pending"]
    /\ drainer' = [drainer EXCEPT ![w] = "running"]

\* fatalErrorHandler.Do(func() { go setFatal(err); go drainer(in) }) by
\* worker w: the function runs on the first call of the node only.
FatalErrorHandlerDo(w) ==
    IF once[NodeOf(w)]
      THEN UNCHANGED <<once, fpc, drainer>>
      ELSE /\ once' = [once EXCEPT ![NodeOf(w)] = TRUE]
           /\ fpc' = [fpc EXCEPT ![w] = "pending"]
           /\ drainer' = [drainer EXCEPT ![w] = "running"]

\* WriteReturned whose switch leaves consumerLoop on every error: an ordinary
\* error ends the worker like a fatal one.
WriteReturned_BreakOnError(w, t, outcome) ==
    /\ handed' = [handed EXCEPT ![w] = Append(@, t)]
    /\ dropped' = [dropped EXCEPT ![w] =
                      IF outcome \in {"error", "temporary"} THEN @ + 1 ELSE @]
    /\ IF outcome \in {"fatal", "panic", "error"}
         THEN /\ FatalErrorHandlerDo(w)
              /\ wpc' = [wpc EXCEPT ![w] = "failed"]
         ELSE /\ wpc' = [wpc EXCEPT ![w] = "recv"]
              /\ UNCHANGED <<once, fpc, drainer>>

\* sc.dst.Write(ctx, t) of worker w has returned.
\*   "ok": nil; "error", "temporary": the tuple is skipped;
\*   "fatal": break consumerLoop; "panic": the deferred panic handler.
WriteReturned(w, t, outcome) ==
    /\ handed' = [handed EXCEPT ![w] = Append(@, t)]
    /\ dropped' = [dropped EXCEPT ![w] =
                      IF outcome \in {"error", "temporary"} THEN @ + 1 ELSE @]
    /\ IF outcome \in {"fatal", "panic"}
         THEN /\ FatalErrorHandlerDo(w)
              /\ wpc' = [wpc EXCEPT ![w] = "failed"]
         ELSE /\ wpc' = [wpc EXCEPT ![w] = "recv"]
              /\ UNCHANGED <<once, fpc, drainer>>

\* One iteration of the range loop of worker w: the next tuple is received and
\* sc.dst.Write(ctx, t) returns.  The Box of node "box" emits the tuple to
\* BoxPipe before it returns nil; the Sink of node "sink" consumes it.
WorkerProcess(w, outcome) ==
    /\ wpc[w] = "recv"
    /\ pipe[w] # <<>>
    /\ recvd' = [recvd EXCEPT ![w] = Append(@, Head(pipe[w]))]
    /\ IF outcome = "ok" /\ NodeOf(w) = "box"
         THEN /\ HasRoom(BoxPipe)
              /\ pipe' = Sent(Received(pipe, w), BoxPipe, Head(pipe[w]))
              /\ accepted' = Logged(accepted, BoxPipe, Head(pipe[w]))
         ELSE /\ pipe' = Received(pipe, w)
              /\ UNCHANGED accepted
    /\ WriteReturned(w, Head(pipe[w]), outcome)
    /\ UNCHANGED <<callVars, topoVars, sent, budget, srcPanicked, held, fidx, listenerVars,
                   queryVars>>

\* The range loop of a worker of "box" receives its next tuple and the Box
\* emits it while BoxPipe is full: the send blocks.
WorkerWriteBlocks(w) ==
    /\ wpc[w] = "recv"
    /\ pipe[w] # <<>>
    /\ NodeOf(w) = "box"
    /\ ~Closed(BoxPipe)
    /\ Len(pipe[BoxPipe]) >= PipeCapacity
    /\ recvd' = [recvd EXCEPT ![w] = Append(@, Head(pipe[w]))]
    /\ pipe' = Received(pipe, w)
    /\ held' = [held EXCEPT ![w] = <<Head(pipe[w])>>]
    /\ wpc' = [wpc EXCEPT ![w] = "write"]
    /\ UNCHANGED <<callVars, topoVars, accepted, sent, budget, srcPanicked, handed,
                   dropped, fatalVars, listenerVars, queryVars>>

\* The blocked send of a worker of "box" goes through, sc.dst.Write returns nil.
WorkerWriteResumes(w) ==
    /\ wpc[w] = "write"
    /\ HasRoom(BoxPipe)
    /\ pipe' = Sent(pipe, BoxPipe, held[w][1])
    /\ accepted' = Logged(accepted, BoxPipe, held[w][1])
    /\ held' = [held EXCEPT ![w] = <<>>]
    /\ WriteReturned(w, held[w][1], "ok")
    /\ UNCHANGED <<callVars, topoVars, recvd, sent, budget, srcPanicked, fidx,
                   listenerVars, queryVars>>

\* The range loop of worker w ends: deferred wg.Done.
WorkerExit(w) ==
    /\ wpc[w] = "recv"
    /\ PipeEnded(w)
    /\ wpc' = [wpc EXCEPT ![w] = "exited"]
    /\ UNCHANGED <<callVars, topoVars, pipeVars, sent, budget, srcPanicked, held, handed, dropped,
                   fatalVars, listenerVars, queryVars>>

\* wg.Wait() of node n returns, sc.dst.Close(ctx), the node goroutine is done.
NodeClose(n) ==
    /\ nodePc[n] = "running"
    /\ \A w \in Inputs(n) : wpc[w] \in {"exited", "failed"}
    /\ nodePc' = [nodePc EXCEPT ![n] = "done"]
    /\ UNCHANGED <<callVars, srcDsts, closeCnt, srcPc, srcStopResult, flowVars, queryVars>>

\* drainer(in): one tuple received and discarded.
DrainerReceive(w) ==
    /\ drainer[w] = "running"
    /\ pipe[w] # <<>>
    /\ recvd' = [recvd EXCEPT ![w] = Append(@, Head(pipe[w]))]
    /\ pipe' = Received(pipe, w)
    /\ UNCHANGED <<callVars, topoVars, accepted, sent, budget, srcPanicked, workerVars, fatalVars,
                   listenerVars, queryVars>>

\* drainer(in): the sender has closed the channel, the loop ends.
DrainerExit(w) ==
    /\ drainer[w] = "running"
    /\ PipeEnded(w)
    /\ drainer' = [drainer EXCEPT ![w] = "done"]
    /\ UNCHANGED <<callVars, topoVars, pipeVars, sent, budget, srcPanicked, workerVars, once, fpc,
                   fidx, listenerVars, queryVars>>

\* ----- fatal listeners -----

\* AddFatalListener(f): append under fatalListenerMutex.  Listener l is the
\* l-th one registered.
AddFatalListener(l) ==
    /\ fatalListenerMutex = Free
    /\ l = Len(fatalListener) + 1
    /\ fatalListener' = Append(fatalListener, l)
    /\ UNCHANGED <<callVars, topoVars, pipeVars, sent, budget, srcPanicked, workerVars, fatalVars,
                   fatalListenerMutex, lcalls, queryVars>>

\* notifyFatalListeners, from the call of listener number i on: the call of
\* that listener, or the end of the loop and the deferred Unlock.
NotifyFrom(w, i) ==
    IF i <= Len(fatalListener)
      THEN /\ lcalls' = Append(lcalls, [node |-> NodeOf(w), l |-> fatalListener[i]])
           /\ fpc' = [fpc EXCEPT ![w] = "calling"]
           /\ fatalListenerMutex' = w
      ELSE /\ fpc' = [fpc EXCEPT ![w] = "done"]
           /\ fatalListenerMutex' = Free
           /\ UNCHANGED lcalls

\* notifyFatalListeners without fatalListenerMutex.
NotifyLock_NoMutex(w) ==
    /\ fpc[w] = "pending"
    /\ NotifyFrom(w, 1)
    /\ UNCHANGED <<callVars, topoVars, pipeVars, sent, budget, srcPanicked,
                   workerVars, drainer, once, fidx, fatalListener, queryVars>>

\* setFatal -> notifyFatalListeners: t.fatalListenerMutex.Lock(), then the
\* range loop up to its first call.
NotifyLock(w) ==
    /\ fpc[w] = "pending"
    /\ fatalListenerMutex = Free
    /\ NotifyFrom(w, 1)
    /\ UNCHANGED <<callVars, topoVars, pipeVars, sent, budget, srcPanicked, workerVars, drainer,
                   once, fidx, fatalListener, queryVars>>

\* notifyFatalListeners: a listener returns, the loop goes on.
ListenerReturn(w) ==
    /\ fpc[w] = "calling"
    /\ fidx' = [fidx EXCEPT ![w] = @ + 1]
    /\ NotifyFrom(w, fidx[w] + 2)
    /\ UNCHANGED <<callVars, topoVars, pipeVars, sent, budget, srcPanicked, workerVars, drainer,
                   once, fatalListener, queryVars>>

\* ----- State and Wait -----

\* State(ctx): reads t.state under the mutex and writes nothing.
StateCall ==
    /\ state \in TopologyStates
    /\ UNCHANGED vars

\* Wait(ctx, s): returns once t.state is at least s and writes nothing.
WaitCall(s) ==
    /\ WaitOver(s)
    /\ UNCHANGED vars

Next ==
    \/ \E p \in Runners : RunCheckState(p)
    \/ \E p \in Runners : RunWaitRunning(p)
    \/ \E p \in Runners, b \in Boxes, ok \in BOOLEAN : RunInitBox(p, b, ok)
    \/ \E p \in Runners, outcome \in {"ok", "error", "panic"} : RunTerminateBox(p, outcome)
    \/ \E p \in Runners : RunSpawn(p)
    \/ \E p \in Runners : RunSetRunning(p)
    \/ \E p \in Runners : RunWgWait(p)
    \/ \E p \in Runners : RunDeferred(p)
    \/ \E s \in Sources : SourceGenerateReturns(s)
    \/ \E s \in Sources : SourceCloseLookup(s)
    \/ \E s \in Sources : SourceClose(s)
    \/ \E n \in Nodes : NodeReturns(n)
    \/ \E q \in Stoppers : StopEnter(q)
    \/ \E q \in Stoppers : StopWaitRunning(q)
    \/ \E q \in Stoppers : StopWaitStopped(q)
    \/ \E q \in Stoppers, s \in Sources, outcome \in {"ok", "error", "panic"} : StopSource(q, s, outcome)
    \/ \E q \in Stoppers : StopCloseLookup(q)
    \/ \E q \in Stoppers : StopClose(q)
    \/ \E q \in Stoppers : StopFinish(q)
    \/ StateCall
    \/ \E s \in TopologyStates : WaitCall(s)

Spec == Init /\ [][Next]_vars

\* ----- the topology with its data flow -----
\* In each of the following specifications Run is called once and every Init
\* succeeds; they differ in what the Sources, Boxes and Sinks do.

\* Graceful operation: the Boxes and Sinks return nil or non-fatal errors, one
\* Stop is called and every Source stops cleanly.
FlowInit == Constructed /\ budget = MaxTuples /\ NoPlan

FlowNext ==
    \/ RunCheckState(1)
    \/ \E b \in Boxes : RunInitBox(1, b, TRUE)
    \/ RunSpawn(1)
    \/ RunSetRunning(1)
    \/ RunWgWait(1)
    \/ RunDeferred(1)
    \/ \E s \in Sources : SourceWrite(s)
    \/ \E s \in Sources : SourceWriteBlocks(s)
    \/ \E s \in Sources : SourceGenerateReturns(s)
    \/ \E s \in Sources : SourceCloseLookup(s)
    \/ \E s \in Sources : SourceClose(s)
    \/ \E w \in Pipes, outcome \in {"ok", "error", "temporary"} : WorkerProcess(w, outcome)
    \/ \E w \in Pipes : WorkerWriteBlocks(w)
    \/ \E w \in Pipes : WorkerWriteResumes(w)
    \/ \E w \in Pipes : WorkerExit(w)
    \/ \E n \in Nodes : NodeClose(n)
    \/ StopEnter(1)
    \/ StopWaitRunning(1)
    \/ \E s \in Sources : StopSource(1, s, "ok")
    \/ StopFinish(1)
    \/ StopWaitStopped(1)

SpecFlow == FlowInit /\ [][FlowNext]_vars

\* Fatal errors: the Boxes and Sinks return nil or a fatal error, or panic;
\* fatal listeners are registered at any time; the Sources end on their own.
FatalInit == Constructed /\ budget = MaxTuples /\ NoPlan

FatalNext ==
    \/ RunCheckState(1)
    \/ \E b \in Boxes : RunInitBox(1, b, TRUE)
    \/ RunSpawn(1)
    \/ RunSetRunning(1)
    \/ RunWgWait(1)
    \/ RunDeferred(1)
    \/ \E s \in Sources : SourceWrite(s)
    \/ \E s \in Sources : SourceWriteBlocks(s)
    \/ \E s \in Sources : SourceGenerateReturns(s)
    \/ \E s \in Sources : SourceCloseLookup(s)
    \/ \E s \in Sources : SourceClose(s)
    \/ \E w \in Pipes, outcome \in {"ok", "fatal", "panic"} : WorkerProcess(w, outcome)
    \/ \E w \in Pipes : WorkerWriteBlocks(w)
    \/ \E w \in Pipes : WorkerWriteResumes(w)
    \/ \E w \in Pipes : WorkerExit(w)
    \/ \E n \in Nodes : NodeClose(n)
    \/ \E w \in Pipes : DrainerReceive(w)
    \/ \E w \in Pipes : DrainerExit(w)
    \/ \E l \in Listeners : AddFatalListener(l)
    \/ \E w \in Pipes : NotifyLock(w)
    \/ \E w \in Pipes : ListenerReturn(w)

SpecFatal == FatalInit /\ [][FatalNext]_vars

\* A failing Box: every Write of the node "box" returns a fatal error or
\* panics; one Stop is called and every Source stops cleanly.  The Sources
\* have enough tuples for one of them to emit a tuple and for another to fill
\* a Pipe whose reader took one tuple and to block on the next Write.
DrainTuples == PipeCapacity + 3
DrainInit == Constructed /\ budget = DrainTuples /\ NoPlan

DrainNext ==
    \/ RunCheckState(1)
    \/ \E b \in Boxes : RunInitBox(1, b, TRUE)
    \/ RunSpawn(1)
    \/ RunSetRunning(1)
    \/ RunWgWait(1)
    \/ RunDeferred(1)
    \/ \E s \in Sources : SourceWrite(s)
    \/ \E s \in Sources : SourceWriteBlocks(s)
    \/ \E s \in Sources : SourceGenerateReturns(s)
    \/ \E s \in Sources : SourceCloseLookup(s)
    \/ \E s \in Sources : SourceClose(s)
    \/ \E w \in Pipes, outcome \in {"fatal", "panic"} : WorkerProcess(w, outcome)
    \/ \E w \in Pipes : WorkerExit(w)
    \/ \E n \in Nodes : NodeClose(n)
    \/ \E w \in Pipes : DrainerReceive(w)
    \/ \E w \in Pipes : DrainerExit(w)
    \/ StopEnter(1)
    \/ StopWaitRunning(1)
    \/ \E s \in Sources : StopSource(1, s, "ok")
    \/ StopFinish(1)
    \/ StopWaitStopped(1)

SpecDrain == DrainInit /\ [][DrainNext]_vars

\* Panics: GenerateStream of a Source may panic, every Write of the node
\* "box" panics; fatal listeners are registered at any time.
PanicInit == Constructed /\ budget = MaxTuples /\ NoPlan

PanicNext ==
    \/ RunCheckState(1)
    \/ \E b \in Boxes : RunInitBox(1, b, TRUE)
    \/ RunSpawn(1)
    \/ RunSetRunning(1)
    \/ RunWgWait(1)
    \/ RunDeferred(1)
    \/ \E s \in Sources : SourceWrite(s)
    \/ \E s \in Sources : SourceWriteBlocks(s)
    \/ \E s \in Sources : SourceGenerateReturns(s)
    \/ \E s \in Sources : SourceCloseLookup(s)
    \/ \E s \in Sources : SourceClose(s)
    \/ \E s \in Sources : SourceGeneratePanics(s)
    \/ \E w \in Pipes, outcome \in {"panic"} : WorkerProcess(w, outcome)
    \/ \E w \in Pipes : WorkerExit(w)
    \/ \E n \in Nodes : NodeClose(n)
    \/ \E w \in Pipes : DrainerReceive(w)
    \/ \E w \in Pipes : DrainerExit(w)
    \/ \E l \in Listeners : AddFatalListener(l)
    \/ \E w \in Pipes : NotifyLock(w)
    \/ \E w \in Pipes : ListenerReturn(w)

SpecPanic == PanicInit /\ [][PanicNext]_vars

\* Sources that fail to stop: Stop is called by several callers, Source.Stop
\* may return an error or panic; the Boxes and Sinks return nil.  The Sources
\* have enough tuples to fill BoxPipe and to block the next Write on it.
StopTuples == PipeCapacity + 1
StopInit == Constructed /\ budget = StopTuples /\ NoPlan

StopNext ==
    \/ RunCheckState(1)
    \/ \E b \in Boxes : RunInitBox(1, b, TRUE)
    \/ RunSpawn(1)
    \/ RunSetRunning(1)
    \/ RunWgWait(1)
    \/ RunDeferred(1)
    \/ \E s \in Sources : SourceWrite(s)
    \/ \E s \in Sources : SourceWriteBlocks(s)
    \/ \E s \in Sources : SourceGenerateReturns(s)
    \/ \E s \in Sources : SourceCloseLookup(s)
    \/ \E s \in Sources : SourceClose(s)
    \/ \E s \in Sources : SourceWritePanics(s)
    \/ \E w \in Pipes, outcome \in {"ok"} : WorkerProcess(w, outcome)
    \/ \E w \in Pipes : WorkerWriteBlocks(w)
    \/ \E w \in Pipes : WorkerWriteResumes(w)
    \/ \E w \in Pipes : WorkerExit(w)
    \/ \E n \in Nodes : NodeClose(n)
    \/ \E q \in Stoppers : StopEnter(q)
    \/ \E q \in Stoppers : StopWaitRunning(q)
    \/ \E q \in Stoppers : StopWaitStopped(q)
    \/ \E q \in Stoppers, s \in Sources, outcome \in {"ok", "error", "panic"} : StopSource(q, s, outcome)
    \/ \E q \in Stoppers : StopCloseLookup(q)
    \/ \E q \in Stoppers : StopClose(q)
    \/ \E q \in Stoppers : StopFinish(q)

SpecStop == StopInit /\ [][StopNext]_vars

\* ===== The grouping operator: groupbyExecutionPlan =====
\* The plan of the model is SELECT [k,] array_agg(v) [GROUP BY k] [HAVING h]
\* over input rows {k, v}: groupList is <<>> or <<"k">>, the only aggregate
\* parameter is the column v, and the HAVING expression yields the first of
\* a group's aggregated values.  The evaluators are functions of the row
\* they are given; the values BadKey, BadParam, BadHaving and BadProjection
\* in a row make one of them return an error.

MaxWindow == 3

NullValue == "null"
BoolTrue == "true"
BoolFalse == "false"
ArrayValue == "array"
BadKey == "bad key"
BadParam == "bad parameter"
BadHaving == "bad having"
BadProjection == "bad projection"

ErrGroupBy == "GROUP BY expression failed"
ErrAggParam == "aggregate parameter failed"
ErrHaving == "HAVING failed"
ErrCast == "unsupported cast array -> bool"
ErrProjection == "projection failed"

HavingAlias == ":having:"

\* The projections of a plan with or without GROUP BY and HAVING.
PlanProjections(grouped, having) ==
    (IF grouped THEN <<"k">> ELSE <<>>) \o <<"agg">>
        \o (IF having THEN <<HavingAlias>> ELSE <<>>)

\* data.Hash of a GROUP BY value array: equal arrays have equal hashes, and
\* the arrays <<"a">> and <<"c">> collide.
Hash(a) ==
    IF a = <<>> THEN 0
    ELSE IF a[1] \in {"a", "c"} THEN 1 ELSE 2

\* data.Equal on arrays: the same length and equal elements.
Equal(a, b) == Len(a) = Len(b) /\ \A i \in 1..Len(a) : a[i] = b[i]

\* data.AsBool: a Bool casts to itself, an Array does not cast.
AsBool(v) ==
    IF v \in {BoolTrue, BoolFalse}
      THEN [err |-> Success, value |-> v = BoolTrue]
      ELSE [err |-> ErrCast, value |-> FALSE]

\* eval.Eval(*io.input) of the GROUP BY expression k.
GroupByEval(input) ==
    IF input.k = BadKey THEN [err |-> ErrGroupBy, value |-> ""]
    ELSE [err |-> Success, value |-> input.k]

\* agg.Eval(*io.input) of the aggregate parameter v.
AggParamEval(input) ==
    IF input.v = BadParam THEN [err |-> ErrAggParam, value |-> ""]
    ELSE [err |-> Success, value |-> input.v]

\* proj.evaluator.Eval of the HAVING projection on a group's flattened data.
HavingEval(d) ==
    IF \E i \in 1..Len(d.agg) : d.agg[i] = BadHaving
      THEN [err |-> ErrHaving, value |-> ""]
    ELSE IF d.agg = <<>> THEN [err |-> Success, value |-> NullValue]
    ELSE [err |-> Success, value |-> d.agg[1]]

\* proj.evaluator.Eval of the projection with the given alias; its value is
\* the column k of the group's representative row (Null without such a
\* column), or the aggregated array.
ProjectionEval(alias, d) ==
    CASE alias = HavingAlias -> HavingEval(d)
      [] alias = "k" ->
           [err |-> Success, value |-> IF "k" \in DOMAIN d THEN d.k ELSE NullValue]
      [] OTHER ->
           IF \E i \in 1..Len(d.agg) : d.agg[i] = BadProjection
             THEN [err |-> ErrProjection, value |-> <<>>]
             ELSE [err |-> Success, value |-> d.agg]

\* assignOutputValue(result, alias, aliasPath, value): the value is stored
\* under the alias.
AssignOutputValue(result, alias, value) ==
    [c \in DOMAIN result \cup {alias} |-> IF c = alias THEN value ELSE result[c]]

\* A row admitted to the window: inputRowWithCachedResult without cache.
NewRow(input) == [input |-> input, cache |-> <<>>, hash |-> 0]

\* ----- slices and their backing arrays -----

\* cap(s).
Cap(mem, s) == IF s.arr = NilArray THEN 0 ELSE Len(mem[s.arr])

\* The rows visible through slice s.
Rows(mem, s) == IF s.arr = NilArray THEN <<>> ELSE SubSeq(mem[s.arr], 1, s.len)

\* The zero value of resultRow, in the cells append has not written yet.
ZeroRow == [row |-> <<>>]

\* output = append(output, r) while ep.prevResults and ep.curResults point to
\* the array `kept`: in place when the capacity allows it, otherwise into a
\* new array of twice the capacity, the old cells copied.
AppendRow(mem, s, kept, r) ==
    IF s.len < Cap(mem, s)
      THEN [arrays |-> [mem EXCEPT ![s.arr][s.len + 1] = r],
            slice |-> [s EXCEPT !.len = @ + 1]]
      ELSE LET new == CHOOSE a \in ArrayIds : a \notin {s.arr, kept}
               c == IF Cap(mem, s) = 0 THEN 1 ELSE 2 * Cap(mem, s)
               cells == [i \in 1..c |->
                           IF i <= s.len THEN mem[s.arr][i]
                           ELSE IF i = s.len + 1 THEN r ELSE ZeroRow]
           IN  [arrays |-> [mem EXCEPT ![new] = cells],
                slice |-> [arr |-> new, len |-> s.len + 1]]

\* The memory when performQueryOnBuffer returns with ep.prevResults = prev
\* and ep.curResults = cur.  An array no slice points to is garbage, and a
\* cell beyond the length of every slice on its array is read by nobody
\* before append overwrites it.  Addresses cannot be observed: the array of
\* cur is named "A", another array of prev "B".
Settled(mem, prev, cur) ==
    LET curId == IF cur.arr = NilArray THEN NilArray ELSE "A"
        prevId == IF prev.arr = NilArray THEN NilArray
                  ELSE IF prev.arr = cur.arr THEN "A" ELSE "B"
        Seen(a) == IF prev.arr = a /\ (cur.arr # a \/ prev.len > cur.len)
                     THEN prev.len
                   ELSE IF cur.arr = a THEN cur.len ELSE 0
        Trimmed(a) == [i \in 1..Len(mem[a]) |->
                         IF i <= Seen(a) THEN mem[a][i] ELSE ZeroRow]
    IN  [prev |-> [arr |-> prevId, len |-> prev.len],
         cur |-> [arr |-> curId, len |-> cur.len],
         arrays |-> [a \in ArrayIds |->
                       IF a = curId THEN Trimmed(cur.arr)
                       ELSE IF a = prevId THEN Trimmed(prev.arr)
                       ELSE <<>>]]

\* ----- performQueryOnBuffer -----

\* groups[h] = bucket: the map of the hash values to their groups.
PutGroups(groups, h, bucket) ==
    [x \in DOMAIN groups \cup {h} |-> IF x = h THEN bucket ELSE groups[x]]

\* mkGroup: a new tmpGroupData with no aggregate input yet.
MkGroup(groupValues, nonGroupValues) ==
    [group |-> groupValues, aggData |-> <<>>, nonAggData |-> nonGroupValues]

\* findOrCreateGroup that takes the first group of the bucket without
\* comparing the group values.
FindOrCreateGroup_NoEqual(g, groupValues, groupHash, nonGroupValues) ==
    IF groupHash \notin DOMAIN g.groups
      THEN [groups |-> PutGroups(g.groups, groupHash,
                                 <<MkGroup(groupValues, nonGroupValues)>>),
            groupKeys |-> Append(g.groupKeys, groupHash),
            at |-> 1]
      ELSE [groups |-> g.groups, groupKeys |-> g.groupKeys, at |-> 1]

\* findOrCreateGroup: the groups and groupKeys after the call, and the place
\* in the bucket of groupHash of the group found or created.
FindOrCreateGroup(g, groupValues, groupHash, nonGroupValues) ==
    IF groupHash \notin DOMAIN g.groups
      THEN [groups |-> PutGroups(g.groups, groupHash,
                                 <<MkGroup(groupValues, nonGroupValues)>>),
            groupKeys |-> Append(g.groupKeys, groupHash),
            at |-> 1]
      ELSE LET groupCandidates == g.groups[groupHash]
               found == {j \in 1..Len(groupCandidates) :
                            Equal(groupValues, groupCandidates[j].group)}
           IN  IF found # {}
                 THEN [groups |-> g.groups, groupKeys |-> g.groupKeys,
                       at |-> CHOOSE j \in found : \A i \in found : j <= i]
                 ELSE [groups |-> PutGroups(g.groups, groupHash,
                                    Append(groupCandidates,
                                           MkGroup(groupValues, nonGroupValues))),
                       groupKeys |-> g.groupKeys,
                       at |-> Len(groupCandidates) + 1]

\* The GROUP BY expressions of groupList evaluated in order on one input row:
\* the first error, or the array of the values.
RECURSIVE GroupValuesFrom(_, _, _)
GroupValuesFrom(input, i, acc) ==
    IF i > Len(groupList) THEN [err |-> Success, value |-> acc]
    ELSE LET e == GroupByEval(input)
         IN  IF e.err # Success THEN [err |-> e.err, value |-> <<>>]
             ELSE GroupValuesFrom(input, i + 1, Append(acc, e.value))

\* evalItem on row number i of the window.  g holds the rows (with their
\* caches), groups, groupKeys and the error returned so far.
EvalItem(g, i) ==
    LET io == g.rows[i]
        computed == GroupValuesFrom(io.input, 1, <<>>)
    IN  IF io.cache = <<>> /\ computed.err # Success
          THEN [g EXCEPT !.err = computed.err]
          ELSE
            LET itemGroupValues == IF io.cache # <<>> THEN io.cache[1]
                                   ELSE computed.value
                hash == IF io.cache # <<>> THEN io.hash ELSE Hash(itemGroupValues)
                rows == [g.rows EXCEPT ![i] = [@ EXCEPT !.cache = <<itemGroupValues>>,
                                                        !.hash = hash]]
                f == FindOrCreateGroup(g, itemGroupValues, hash, io.input)
                value == AggParamEval(io.input)
            IN  IF value.err # Success
                  THEN [rows |-> rows, groups |-> f.groups,
                        groupKeys |-> f.groupKeys, err |-> value.err]
                  ELSE [rows |-> rows,
                        groups |-> [f.groups EXCEPT ![hash][f.at].aggData =
                                                        Append(@, value.value)],
                        groupKeys |-> f.groupKeys, err |-> Success]

\* The loop over ep.filteredInputRows, from row i on, up to the first error.
RECURSIVE EvalItems(_, _)
EvalItems(g, i) ==
    IF i > Len(g.rows) \/ g.err # Success THEN g
    ELSE EvalItems(EvalItem(g, i), i + 1)

\* The groups in the order of a range over the map `groups`, here by
\* ascending hash value.
RECURSIVE GroupOrder_MapRange(_, _)
GroupOrder_MapRange(groupKeys, groups) ==
    IF DOMAIN groups = {} THEN <<>>
    ELSE LET h == CHOOSE x \in DOMAIN groups : \A y \in DOMAIN groups : x <= y
         IN  groups[h] \o
               GroupOrder_MapRange(groupKeys,
                                   [x \in DOMAIN groups \ {h} |-> groups[x]])

\* The order in which the two nested loops over groupKeys and over
\* groups[groupKey] visit the groups.
RECURSIVE GroupOrder(_, _)
GroupOrder(groupKeys, groups) ==
    IF groupKeys = <<>> THEN <<>>
    ELSE groups[Head(groupKeys)] \o GroupOrder(Tail(groupKeys), groups)

\* Whether the plan has a projection with the alias ":having:".
HasHaving == \E i \in 1..Len(projections) : projections[i] = HavingAlias

\* The projections of evalGroup after HAVING, from number i on: the result
\* map with their values assigned, or the first error.
RECURSIVE ProjectFrom(_, _, _, _)
ProjectFrom(d, i, result, skipHaving) ==
    IF i > Len(projections) THEN [err |-> Success, result |-> result]
    ELSE IF skipHaving /\ projections[i] = HavingAlias
      THEN ProjectFrom(d, i + 1, result, skipHaving)
    ELSE LET e == ProjectionEval(projections[i], d)
         IN  IF e.err # Success THEN [err |-> e.err, result |-> result]
             ELSE ProjectFrom(d, i + 1,
                              AssignOutputValue(result, projections[i], e.value),
                              skipHaving)

\* evalGroup: o holds the arrays, the slice output and the error so far; kept
\* is the array ep.curResults points to.
EvalGroup(o, group, kept) ==
    LET d == [k |-> group.nonAggData.k, v |-> group.nonAggData.v,
              agg |-> group.aggData]
        havingResult == HavingEval(d)
        cast == AsBool(havingResult.value)
        p == ProjectFrom(d, 1, <<>>, TRUE)
        a == AppendRow(o.arrays, o.output, kept, [row |-> p.result])
    IN  IF HasHaving /\ havingResult.err # Success
          THEN [o EXCEPT !.err = havingResult.err]
        ELSE IF HasHaving /\ havingResult.value # NullValue /\ cast.err # Success
          THEN [o EXCEPT !.err = cast.err]
        ELSE IF HasHaving /\ (havingResult.value = NullValue \/ ~cast.value)
          THEN o
        ELSE IF p.err # Success
          THEN [o EXCEPT !.err = p.err]
        ELSE [arrays |-> a.arrays, output |-> a.slice, err |-> Success]

\* The loop over the groups, from group number i of the order on, up to the
\* first error.
RECURSIVE EvalGroups(_, _, _, _)
EvalGroups(o, order, i, kept) ==
    IF i > Len(order) \/ o.err # Success THEN o
    ELSE EvalGroups(EvalGroup(o, order[i], kept), order, i + 1, kept)

\* evalNoGroup without the test of ep.groupList.
EvalNoGroup_Always(o, kept) ==
    LET p == ProjectFrom([agg |-> <<>>], 1, <<>>, FALSE)
        a == AppendRow(o.arrays, o.output, kept, [row |-> p.result])
    IN  IF p.err # Success THEN [o EXCEPT !.err = p.err]
        ELSE [arrays |-> a.arrays, output |-> a.slice, err |-> Success]

\* evalNoGroup: nothing with a GROUP BY clause; otherwise every projection is
\* evaluated on empty aggregate inputs and assigned, and the row is appended.
EvalNoGroup(o, kept) ==
    IF Len(groupList) > 0 THEN o
    ELSE LET p == ProjectFrom([agg |-> <<>>], 1, <<>>, FALSE)
             a == AppendRow(o.arrays, o.output, kept, [row |-> p.result])
         IN  IF p.err # Success THEN [o EXCEPT !.err = p.err]
             ELSE [arrays |-> a.arrays, output |-> a.slice, err |-> Success]

\* ep.prevResults = ep.curResults at the head of performQueryOnBuffer.
Remember(ep) == [ep EXCEPT !.prev = ep.cur]

\* A rollback that leaves ep.prevResults pointing to the array of
\* ep.curResults.
Rollback_KeepPrev(ep, output) == ep

\* rollback(): ep.prevResults = output.
Rollback(ep, output) == [ep EXCEPT !.prev = output]

\* ep.curResults = output.
Commit(ep, output) == [ep EXCEPT !.cur = output]

\* The end of performQueryOnBuffer with error paths that do not return: the
\* output is committed whatever the evaluators returned.
Returned_CommitAlways(ep, output, err) == Commit(ep, output)

\* The end of performQueryOnBuffer: rollback and the error, or the commit.
Returned(ep, output, err) ==
    IF err # Success THEN Rollback(ep, output) ELSE Commit(ep, output)

\* performQueryOnBuffer on the window `rows`, with ep.prevResults = prev,
\* ep.curResults = cur and the backing arrays mem: the rows with their new
\* caches, the two slices, the arrays and the error returned.
PerformQueryOnBuffer(rows, prev, cur, mem) ==
    LET output == [arr |-> prev.arr, len |-> 0]
        ep == Remember([prev |-> prev, cur |-> cur])
        g == EvalItems([rows |-> rows, groups |-> <<>>, groupKeys |-> <<>>,
                        err |-> Success], 1)
        start == [arrays |-> mem, output |-> output, err |-> g.err]
        o == EvalGroups(start, GroupOrder(g.groupKeys, g.groups), 1, cur.arr)
        e == IF o.err = Success /\ DOMAIN g.groups = {}
               THEN EvalNoGroup(o, cur.arr) ELSE o
        r == Returned(ep, e.output, e.err)
        m == Settled(e.arrays, r.prev, r.cur)
    IN  [rows |-> g.rows, prev |-> m.prev, cur |-> m.cur, arrays |-> m.arrays,
         err |-> e.err]

\* Process(input): the window is updated, then performQueryOnBuffer runs on
\* it.  `admitted` is <<>> when the WHERE clause filters the tuple out and
\* holds its row otherwise; `evict` rows leave the window at its front.
Process(admitted, evict) ==
    /\ evict \in 0..Len(filteredInputRows)
    /\ Len(filteredInputRows) - evict + Len(admitted) <= MaxWindow
    /\ LET window == SubSeq(filteredInputRows, evict + 1, Len(filteredInputRows))
                        \o [i \in 1..Len(admitted) |-> NewRow(admitted[i])]
       IN  \E r \in {PerformQueryOnBuffer(window, prevResults, curResults, arrays)} :
             /\ filteredInputRows' = r.rows
             /\ prevResults' = r.prev
             /\ curResults' = r.cur
             /\ arrays' = r.arrays
             /\ queryErr' = r.err
    /\ UNCHANGED <<planVars, callVars, topoVars, flowVars>>

\* A topology that is never run, with one of the plans: with or without
\* GROUP BY, and with HAVING if `having` allows it.
Planned(having) ==
    /\ Constructed
    /\ budget = 0
    /\ \E grouped \in BOOLEAN, h \in having :
          /\ groupList = (IF grouped THEN <<"k">> ELSE <<>>)
          /\ projections = PlanProjections(grouped, h)

\* Grouping without HAVING: three keys of which two collide, every
\* evaluator succeeds; at most one row leaves the window per tuple.
GroupInit == Planned({FALSE})

GroupNext ==
    \/ \E k \in {"a", "b", "c"}, v \in {BoolTrue, BoolFalse}, evict \in 0..1 :
          Process(<<[k |-> k, v |-> v]>>, evict)
    \/ \E evict \in 0..1 : Process(<<>>, evict)

SpecGroup == GroupInit /\ [][GroupNext]_vars

\* Plans with and without HAVING: the HAVING value of a group is true,
\* false or Null; every evaluator succeeds.
HavingInit == Planned(BOOLEAN)

HavingNext ==
    \/ \E k \in {"a", "b"}, v \in {BoolTrue, BoolFalse, NullValue}, evict \in 0..1 :
          Process(<<[k |-> k, v |-> v]>>, evict)
    \/ \E evict \in 0..1 : Process(<<>>, evict)

SpecHaving == HavingInit /\ [][HavingNext]_vars

\* Evaluations that fail: rows on which the GROUP BY expression, the
\* aggregate parameter, HAVING, its cast or a projection returns an error.
RollbackWindow == MaxWindow - 1
RollbackInit == Planned(BOOLEAN)

RollbackNext ==
    \/ \E k \in {"a", "b", BadKey},
          v \in {BoolTrue, ArrayValue, BadParam, BadHaving, BadProjection},
          evict \in 0..1 :
            /\ Len(filteredInputRows) - evict < RollbackWindow
            /\ Process(<<[k |-> k, v |-> v]>>, evict)
    \/ \E evict \in 0..1 : Process(<<>>, evict)

SpecRollback == RollbackInit /\ [][RollbackNext]_vars

\* ===== Properties of the lifecycle =====

\* A Run caller that passed checkState (it set TSStarting).
PassedCheck(p) ==
    \/ rpc[p] \in {"init", "terminate", "setRunning", "wgWait", "deferred"}
    \/ rpc[p] = "done" /\ runRet[p] \in {Success, ErrInit}

\* Calls of Source.Stop on s, over all Stop callers.
SrcStopCalls(s) == Cardinality({q \in Stoppers : s \in stopVisited[q]})

\* C1: the topology state never decreases in the order Initialized < Starting
\* < Running < Stopping < Stopped, whatever Run, Stop, Wait, State calls and
\* goroutines interleave; once Stopped it stays Stopped.
C1_StateNeverDecreases ==
    [][/\ Ord(state') >= Ord(state)
       /\ (state = TSStopped => state' = TSStopped)]_vars

\* Stop has forced TSStopped after a Source failed to stop, and Run, still
\* waiting for its goroutines, will set the state once more.
C1_Witness ==
    /\ state = TSStopped
    /\ \E q \in Stoppers : stopRet[q] = ErrStopFailed
    /\ \E p \in Runners : rpc[p] = "wgWait"

\* The transitions the state section lists.
ListedTransitions ==
    { <<TSInitialized, TSStarting>>, <<TSStarting, TSRunning>>,
      <<TSRunning, TSStopping>>, <<TSStopping, TSStopped>>,
      <<TSInitialized, TSStopped>>, <<TSStarting, TSStopped>> }

C3_StopReturnsStopped ==
    \A q \in Stoppers : spc[q] = "done" => state = TSStopped

\* One Stop returned the composite error and another returned nil, while Run
\* is still waiting for its goroutines.
C3_Witness ==
    /\ \E q \in Stoppers : spc[q] = "done" /\ stopRet[q] = ErrStopFailed
    /\ \E q \in Stoppers : spc[q] = "done" /\ stopRet[q] = Success
    /\ \E p \in Runners : rpc[p] = "wgWait"

\* C4 as stated: whenever any call of Run has returned, the state is Stopped,
\* also for a Run that returned "already started".
C4_EveryRunReturnsStopped ==
    \A p \in Runners : rpc[p] = "done" => state = TSStopped

\* C4 amended: whenever a call of Run that passed the state check has returned
\* (nil, or the Init error), the state is Stopped; a Run that returned
\* "already started" says nothing about the state.
C4_PassedRunReturnsStopped ==
    \A p \in Runners :
        rpc[p] = "done" /\ runRet[p] # ErrAlreadyStarted => state = TSStopped

\* A Run whose Box initialization failed has returned the Init error.
C4_Witness ==
    \E p \in Runners : rpc[p] = "done" /\ runRet[p] = ErrInit

\* C5: at most one Run passes the state check; every other Run returns
\* "already started", and it does so only with the state at least Running.
C5_SingleRunPasses ==
    /\ Cardinality({p \in Runners : PassedCheck(p)}) <= 1
    /\ \A p \in Runners :
          /\ rpc[p] = "done" => (PassedCheck(p) \/ runRet[p] = ErrAlreadyStarted)
          /\ runRet[p] = ErrAlreadyStarted => Ord(state) >= Ord(TSRunning)

\* A Run that arrived while the state was Starting is still in
\* t.wait(TSRunning) although the other Run has reached Running.
C5_Witness ==
    /\ \E p \in Runners : rpc[p] = "waitRunning"
    /\ \E p \in Runners : rpc[p] = "wgWait"
    /\ state = TSRunning

\* C6: the steps of a Run that fails with "already started" (entering the
\* wait, returning the error) leave the state as it is, call no Init or
\* Terminate and start no goroutine.
C6_FailedRunChangesNothing ==
    [][\A p \in Runners :
          (rpc'[p] # rpc[p] /\ (rpc'[p] = "waitRunning" \/ runRet'[p] = ErrAlreadyStarted))
          => UNCHANGED <<state, initCalls, termCalls, srcPc, nodePc, srcDsts, closeCnt>>]_vars

\* A Run has returned "already started" while the topology is Running.
C6_Witness ==
    /\ state = TSRunning
    /\ \E p \in Runners : rpc[p] = "done" /\ runRet[p] = ErrAlreadyStarted

\* C7: while the state is Starting no step of a Stop caller changes the state
\* or calls a Source.Stop; the state leaves Starting only to Running, or to
\* Stopped through Run's own Init-failure return; Stopping is entered only
\* from Running.
C7_StopWaitsOutStarting ==
    [][/\ (state = TSStarting /\ (\E q \in Stoppers : spc'[q] # spc[q]))
            => (state' = state /\ stopVisited' = stopVisited
                /\ srcStopResult' = srcStopResult)
       /\ (state = TSStarting => \A s \in Sources : SrcStopCalls(s) = 0)
       /\ (state = TSStarting /\ state' # state)
            => \/ state' = TSRunning
               \/ /\ state' = TSStopped
                  /\ \E p \in Runners :
                        rpc[p] = "deferred" /\ runRet[p] = ErrInit /\ rpc'[p] = "done"
       /\ (state' = TSStopping /\ state' # state => state = TSRunning)]_vars

\* A Stop that arrived while the state was Starting is still in
\* t.wait(TSRunning) and the state has become Running.
C7_Witness ==
    /\ state = TSRunning
    /\ \E q \in Stoppers : spc[q] = "waitRunning"

\* C8: at most one Stop call takes Running -> Stopping and only that call
\* invokes Source.Stop, so each Source's Stop is called at most once; a Stop
\* that found Initialized, Stopping or Stopped calls none, and one that found
\* Stopping only waits for Stopped.
C8_StopIdempotent ==
    /\ Cardinality({q \in Stoppers : stopCase[q] = TSRunning}) <= 1
    /\ \A s \in Sources : SrcStopCalls(s) <= 1
    /\ \A q \in Stoppers :
          /\ stopCase[q] # TSRunning => stopVisited[q] = {}
          /\ stopCase[q] = TSStopping => spc[q] \in {"waitStopped", "done"}
          /\ stopCase[q] \in {TSInitialized, TSStopped} => spc[q] = "done"

\* One Stop has stopped every Source and returned; a concurrent Stop found
\* Stopping, waited and returned.
C8_Witness ==
    /\ \E q \in Stoppers :
          stopCase[q] = TSRunning /\ stopVisited[q] = Sources /\ spc[q] = "done"
    /\ \E q \in Stoppers : stopCase[q] = TSStopping /\ spc[q] = "done"

\* The Sources whose Stop returned an error or panicked.
FailedSources == {s \in Sources : srcStopResult[s] = "failed"}

C10_DestinationsClosedOnce ==
    (/\ state = TSStopped
     /\ \A p \in Runners : rpc[p] = "done"
     /\ \A q \in Stoppers : spc[q] = "done")
        => \A s \in Sources : closeCnt[s] = 1

\* ===== Closing the destination of a Source =====

\* The callers of closeDestination(s) that found the entry of s and hold its
\* writer, Close not yet called.
HoldsDst(s) == (IF srcPc[s] = "close" THEN {0} ELSE {})
               \cup {q \in Stoppers : spc[q] = "close" /\ stopCur[q] = s}

\* C11: Close is called at most once on the destination of a Source: of the
\* callers of closeDestination for one Source (Stop's failure path, the
\* Source goroutine) exactly one finds the map entry, removes it and calls
\* Close; every other one finds no entry and does nothing.
C11_CloseCalledOnce ==
    \A s \in Sources :
        /\ closeCnt[s] <= 1
        /\ Cardinality(HoldsDst(s)) + closeCnt[s] = (IF s \in srcDsts THEN 0 ELSE 1)

\* Stop's failure path and the Source goroutine have both gone through
\* closeDestination for the same Source.
C11_Witness ==
    \E s \in Sources :
        /\ srcPc[s] = "done"
        /\ \E q \in Stoppers : s \in stopErr[q]
        /\ closeCnt[s] = 1

\* GenerateStream of Source s has been called and has not returned.
InGenerateStream(s) == srcPc[s] \in {"generating", "writing"}

\* C12 as stated: the writer of a Source is closed only after its
\* GenerateStream has returned; in no state is the destination closed while
\* GenerateStream is still running, a failed Source.Stop included.
C12_ClosedOnlyAfterReturn ==
    \A s \in Sources : closeCnt[s] > 0 => ~InGenerateStream(s)

\* C12 amended: the writer of a Source is taken from the map or closed while
\* its GenerateStream is still running only when Stop of that Source returned
\* an error or panicked (Stop's errHandler closes it); otherwise it is closed
\* by the Source goroutine after GenerateStream has returned.
C12_ClosedAfterReturnUnlessStopFailed ==
    \A s \in Sources :
        (s \notin srcDsts \/ closeCnt[s] > 0) /\ InGenerateStream(s)
            => srcStopResult[s] = "failed"

\* One Source stopped cleanly and its goroutine closed the writer after
\* GenerateStream returned; another failed to stop and its writer was closed
\* by Stop while GenerateStream was still running.
C12_Witness ==
    /\ \E s \in Sources :
           srcStopResult[s] = "ok" /\ srcPc[s] = "done" /\ closeCnt[s] = 1
    /\ \E s \in Sources :
           srcStopResult[s] = "failed" /\ InGenerateStream(s) /\ closeCnt[s] = 1

\* ===== Fatal errors in a node =====

\* C16: every input of a node whose worker exited because of a fatal error or
\* a panic has a drainer that consumes the input until the sender closes it;
\* in a node with several inputs this holds for each such input, not only for
\* the first one.
C16_EveryFailedInputDrained ==
    \A w \in Pipes :
        wpc[w] = "failed" =>
            /\ drainer[w] \in {"running", "done"}
            /\ drainer[w] = "done" => PipeEnded(w)

\* C13: shutdown terminates.  After Stop was called on the Running topology,
\* with every Source stopping cleanly and whatever the Box did, some goroutine
\* can take a step until Stop and Run have both returned: no Source or node
\* worker stays blocked on a full Pipe.
C13_ShutdownNeverStuck ==
    (stopCase[1] = TSRunning /\ ~(rpc[1] = "done" /\ spc[1] = "done"))
        => ENABLED DrainNext

\* The listener calls made for node n, in order.
CallsFor(n) == SelectSeq(lcalls, LAMBDA c : c.node = n)

\* The setFatal goroutines started by the workers of node n.
Notifiers(n) == {w \in Inputs(n) : fpc[w] # "none"}

\* C15: the fatal listeners are notified exactly once per node, with the name
\* of that node, however many of its input workers hit a fatal error or panic:
\* as soon as one worker has failed there is one notification (never none),
\* there is never a second one, and it calls each listener once.
C15_NotifiedOncePerNode ==
    \A n \in Nodes :
        /\ Cardinality(Notifiers(n)) <= 1
        /\ (\E w \in Inputs(n) : wpc[w] = "failed") <=> Cardinality(Notifiers(n)) = 1
        /\ \A i, j \in 1..Len(CallsFor(n)) : i # j => CallsFor(n)[i].l # CallsFor(n)[j].l
        /\ \A w \in Notifiers(n) :
              /\ Len(CallsFor(n)) = fidx[w] + (IF fpc[w] = "calling" THEN 1 ELSE 0)
              /\ fpc[w] = "pending" /\ fatalListenerMutex = Free => ENABLED NotifyLock(w)
              /\ fpc[w] = "calling" => ENABLED ListenerReturn(w)
        /\ Notifiers(n) = {} => CallsFor(n) = <<>>

\* Both input workers of "box" have failed and the one notification of "box"
\* has called every listener.
C15_Witness ==
    /\ \A w \in Inputs("box") : wpc[w] = "failed"
    /\ \E w \in Inputs("box") : fpc[w] = "done"
    /\ Len(fatalListener) = NumListeners
    /\ Len(CallsFor("box")) = NumListeners

\* The listener calls are serialized and complete: at most one callback runs
\* at a time, under fatalListenerMutex; the calls of one notification are not
\* interleaved with those of another; they go through t.fatalListener in
\* registration order.
ListenersSerialized ==
    /\ Cardinality({w \in Pipes : fpc[w] = "calling"}) <= 1
    /\ \A w \in Pipes : fpc[w] = "calling" => fatalListenerMutex = w
    /\ \A i, j, k \in 1..Len(lcalls) :
          i < j /\ j < k /\ lcalls[i].node = lcalls[k].node
              => lcalls[j].node = lcalls[i].node
    /\ \A n \in Nodes : \A i \in 1..Len(CallsFor(n)) : CallsFor(n)[i].l = fatalListener[i]

\* C18: fatal listener callbacks are serialized across the topology: two
\* callbacks never run at the same time, also when several nodes hit a fatal
\* error at once; each notification calls every registered listener, in
\* registration order.
C18_ListenerCallsSerialized ==
    [][/\ ListenersSerialized'
       /\ \A w \in Pipes :
             fpc[w] # "done" /\ fpc'[w] = "done" =>
                 /\ UNCHANGED fatalListener
                 /\ Len(CallsFor(NodeOf(w)))' = Len(fatalListener)]_vars

\* Both nodes have hit a fatal error: the notification of one is inside a
\* callback while the other waits for the mutex, two listeners registered.
C18_Witness ==
    /\ Len(fatalListener) = NumListeners
    /\ \E w \in Inputs("box") : fpc[w] = "calling"
    /\ fpc[BoxPipe] = "pending"

\* ===== Panics =====

C19_PipeBoundedFifo ==
    /\ \A w \in Pipes :
          /\ accepted[w] = recvd[w] \o pipe[w]
          /\ Len(pipe[w]) <= PipeCapacity
          /\ \A i \in 1..Len(pipe[w]) : pipe[w][i].in = w
          /\ \A i \in 1..Len(recvd[w]) : recvd[w][i].in = w
    /\ \A s \in Sources :
          /\ accepted[s] = [i \in 1..sent[s] |-> Tuple(s, i, s)]
          /\ srcPc[s] = "writing" =>
                Len(pipe[s]) = PipeCapacity \/ ENABLED SourceWrite(s)
          /\ wpc[s] = "write" =>
                Len(pipe[BoxPipe]) = PipeCapacity \/ ENABLED WorkerWriteResumes(s)

\* A Source is blocked in Write on its full Pipe.
C19_Witness ==
    \E s \in Sources : srcPc[s] = "writing" /\ Len(pipe[s]) = PipeCapacity

\* No Write of a Box or Sink has returned an error or panicked.
NoErrors == \A w \in Pipes : dropped[w] = 0 /\ wpc[w] # "failed"

\* C20: graceful shutdown loses no tuple.  When the Boxes and Sinks returned
\* no error, every tuple a Source wrote before its GenerateStream returned has
\* been handed to the Box and to the Sink by the time Run returns, exactly
\* once; along the pipeline Source -> box -> sink the tuples of one Source
\* arrive in emission order.
C20_NoTupleLost ==
    (rpc[1] = "done" /\ NoErrors) =>
        /\ \A s \in Sources :
              /\ handed[s] = [i \in 1..sent[s] |-> Tuple(s, i, s)]
              /\ SelectSeq(handed[BoxPipe], LAMBDA t : t.src = s)
                    = [i \in 1..sent[s] |-> Tuple(s, i, BoxPipe)]
        /\ \A w \in Pipes : pipe[w] = <<>> /\ held[w] = <<>>

\* Run has returned after a Stop from Running; both Sources wrote tuples, all
\* MaxTuples of them reached the Sink, no Write failed.
C20_Witness ==
    /\ rpc[1] = "done"
    /\ stopCase[1] = TSRunning
    /\ NoErrors
    /\ \A s \in Sources : sent[s] >= 1
    /\ Len(handed[BoxPipe]) = MaxTuples

\* ===== Producers at the return of Stop =====

\* The goroutine of Source s is in a Pipe Write or can still make one: its
\* GenerateStream is running and its Pipe is open.
SourceProducing(s) == InGenerateStream(s) /\ ~Closed(s)

\* Input worker w of "box" is in a Write to BoxPipe or can still make one: it
\* holds a tuple, or has one to receive, or its Source can still send one.
WorkerProducing(w) ==
    \/ wpc[w] = "write"
    \/ wpc[w] = "recv" /\ (pipe[w] # <<>> \/ SourceProducing(w))

NoProducer == \A s \in Sources : ~SourceProducing(s) /\ ~WorkerProducing(s)

\* C14 as stated: whenever a Stop has returned without error, no Pipe
\* producer (Source worker or node worker) is blocked in, or able to block in,
\* a Pipe Write; this for every successful Stop, also one that succeeds
\* because an earlier Stop forced the state to Stopped.
C14_NoProducerAfterStop ==
    \A q \in Stoppers : stopRet[q] = Success => NoProducer

\* C14 amended: when a Stop has returned without error and no Source.Stop has
\* failed, no Pipe producer is blocked in, or able to block in, a Pipe Write.
C14_NoProducerAfterCleanStop ==
    \A q \in Stoppers :
        stopRet[q] = Success /\ FailedSources = {} => NoProducer

\* A Stop called on the Running topology has returned nil after every Source
\* stopped cleanly; tuples had been written.
C14_Witness ==
    \E q \in Stoppers :
        /\ stopRet[q] = Success
        /\ stopCase[q] = TSRunning
        /\ FailedSources = {}
        /\ \E s \in Sources : sent[s] >= 1

\* ===== Init failure during Run =====

\* The Boxes whose Terminate Run p has called after its Init error.
Terminated(p) == {inited[p][i] : i \in 1..termIdx[p]}

\* C21: if some StatefulBox's Init fails during Run, Terminate is called
\* exactly once on each Box whose Init had succeeded in this Run, in the order
\* of their Inits, and on no other Box, whatever the earlier Terminates
\* returned or panicked with; no node, input worker or Source goroutine is
\* started; the state stays Starting until Run's deferred setState makes it
\* Stopped, and Run returns the Init error.
C21_InitFailureTerminatesInited ==
    \A p \in Runners : runRet[p] = ErrInit =>
        /\ \A n \in Nodes : nodePc[n] = "notstarted"
        /\ \A s \in Sources : srcPc[s] = "notstarted"
        /\ \A w \in Pipes : wpc[w] = "notstarted"
        /\ \A b \in Boxes :
              /\ termCalls[b] = (IF b \in Terminated(p) THEN 1 ELSE 0)
              /\ termResult[b] # "none" <=> b \in Terminated(p)
        /\ rpc[p] \in {"terminate", "deferred", "done"}
        /\ rpc[p] = "terminate" => termIdx[p] < Len(inited[p])
        /\ rpc[p] \in {"deferred", "done"} => Terminated(p) = Range(inited[p])
        /\ state = (IF rpc[p] = "done" THEN TSStopped ELSE TSStarting)

\* Run has returned the Init error of the third Box; the Terminate of the
\* first Box panicked and the Terminate of the second returned an error.
C21_Witness ==
    \E p \in Runners :
        /\ rpc[p] = "done"
        /\ runRet[p] = ErrInit
        /\ Len(inited[p]) = 2
        /\ termResult[inited[p][1]] = "panic"
        /\ termResult[inited[p][2]] = "error"
        /\ \A b \in Boxes : initCalls[b] = 1

\* ===== Non-fatal Write errors =====

\* The tuples of Source s that the Box has emitted to BoxPipe.
Emitted(s) == SelectSeq(accepted[BoxPipe], LAMBDA t : t.src = s)

\* C28: while the Writes of a node's destination return nil, ordinary errors
\* or temporary errors, every failed Write drops one tuple and nothing else
\* happens: no worker leaves its loop for an error, fatalErrorHandler does
\* not run, so no listener is notified and no drainer is started, and every
\* tuple received on an input, also after a failed Write, is handed to the
\* destination in the order of its arrival; the Box has emitted one tuple
\* for each Write that returned nil.
C28_NonFatalErrorDropsOneTuple ==
    /\ lcalls = <<>>
    /\ \A n \in Nodes : ~once[n]
    /\ \A w \in Pipes :
          /\ wpc[w] # "failed"
          /\ drainer[w] = "none"
          /\ fpc[w] = "none"
          /\ handed[w] \o held[w] = recvd[w]
    /\ \A s \in Sources : Len(Emitted(s)) = Len(handed[s]) - dropped[s]

\* The Write of the first tuple of a Source returned an error and the Box
\* emitted the second one; the Sink failed on a tuple and took a later one.
C28_Witness ==
    /\ \E s \in Sources :
          /\ dropped[s] = 1
          /\ Len(handed[s]) = 2
          /\ Emitted(s) = <<Tuple(s, 2, BoxPipe)>>
    /\ dropped[BoxPipe] = 1
    /\ Len(handed[BoxPipe]) = 2
    /\ rpc[1] = "done"

\* ===== The grouping operator =====

\* The GROUP BY value array of row number i of the window.
KeyAt(i) ==
    IF groupList = <<>> THEN <<>> ELSE <<filteredInputRows[i].input.k>>

\* The rows of the window that are the first with their GROUP BY value array.
FirstOfKey == {i \in 1..Len(filteredInputRows) :
                  \A j \in 1..(i - 1) : ~Equal(KeyAt(j), KeyAt(i))}

\* The first row of the window with the hash value of row i's array.
FirstOfHash(i) ==
    CHOOSE j \in 1..i : /\ Hash(KeyAt(j)) = Hash(KeyAt(i))
                        /\ \A l \in 1..(j - 1) : Hash(KeyAt(l)) # Hash(KeyAt(i))

\* The rows committed by the last evaluation.
Committed == Rows(arrays, curResults)

\* The row of FirstOfKey whose group the committed row number n shows.
GroupRowOf(n) ==
    CHOOSE i \in FirstOfKey : <<Committed[n].row.k>> = KeyAt(i)

\* A successful evaluation of a plan with GROUP BY and without HAVING has
\* just committed its rows.
GroupedResult == queryErr = Success /\ groupList # <<>> /\ ~HasHaving

\* C22 as claimed: the committed rows appear in the order in which their
\* groups' keys first appear in the window, also when two different keys
\* have the same hash value.
C22_FirstSeenKeyOrder ==
    GroupedResult =>
        \A m, n \in 1..Len(Committed) :
            m < n => GroupRowOf(m) < GroupRowOf(n)

\* C22 as amended: the committed rows are ordered by the first appearance in
\* the window of their key's hash value and, among keys with the same hash
\* value, by the first appearance of the key; without two different keys of
\* the same hash value in the window this is the order of first appearance
\* of the keys.  No order of the map `groups` plays a part.
C22_FirstSeenHashThenKeyOrder ==
    GroupedResult =>
        /\ \A n \in 1..Len(Committed) :
              \E i \in FirstOfKey : <<Committed[n].row.k>> = KeyAt(i)
        /\ \A m, n \in 1..Len(Committed) :
              m < n =>
                LET i == GroupRowOf(m)
                    j == GroupRowOf(n)
                IN  \/ FirstOfHash(i) < FirstOfHash(j)
                    \/ FirstOfHash(i) = FirstOfHash(j) /\ i < j
        /\ (\A i, j \in FirstOfKey : i # j => Hash(KeyAt(i)) # Hash(KeyAt(j)))
              => \A m, n \in 1..Len(Committed) :
                    m < n => GroupRowOf(m) < GroupRowOf(n)

\* The window holds the keys a, b, c in this order, a and c collide, and
\* the rows of a, c, b were committed in this order.
C22_Witness ==
    /\ GroupedResult
    /\ [i \in 1..Len(filteredInputRows) |-> filteredInputRows[i].input.k]
          = <<"a", "b", "c">>
    /\ [n \in 1..Len(Committed) |-> Committed[n].row.k] = <<"a", "c", "b">>

\* The GROUP BY value array of a committed row.
RowKey(n) == IF groupList = <<>> THEN <<>> ELSE <<Committed[n].row.k>>

\* The aggregate parameters of the window rows whose GROUP BY value array is
\* Equal to that of row i, in window order.
ValuesOfKey(i) ==
    LET same == SelectSeq(filteredInputRows,
                   LAMBDA r : Equal(IF groupList = <<>> THEN <<>> ELSE <<r.input.k>>,
                                    KeyAt(i)))
    IN  [j \in 1..Len(same) |-> same[j].input.v]

\* C23: two rows of the window are in the same group exactly if their GROUP
\* BY value arrays are Equal, whatever their hash values: without HAVING
\* there are as many committed rows as distinct arrays, one for each, and the
\* aggregate input of a group holds one value for each of its rows and for
\* no other row, in window order.
C23_GroupedByEqualKeys ==
    (queryErr = Success /\ ~HasHaving /\ filteredInputRows # <<>>) =>
        /\ Len(Committed) = Cardinality(FirstOfKey)
        /\ \A i \in FirstOfKey :
              \E n \in 1..Len(Committed) :
                  /\ Equal(RowKey(n), KeyAt(i))
                  /\ Committed[n].row.agg = ValuesOfKey(i)
                  /\ \A m \in 1..Len(Committed) :
                        Equal(RowKey(m), KeyAt(i)) => m = n

\* Two rows with the key a, and between them one with the colliding key c:
\* the group of a has both values of its rows, the group of c its own.
C23_Witness ==
    /\ queryErr = Success
    /\ [i \in 1..Len(filteredInputRows) |-> filteredInputRows[i].input]
          = <<[k |-> "a", v |-> BoolTrue], [k |-> "c", v |-> BoolTrue],
              [k |-> "a", v |-> BoolFalse]>>
    /\ [n \in 1..Len(Committed) |-> Committed[n].row]
          = <<[k |-> "a", agg |-> <<BoolTrue, BoolFalse>>],
              [k |-> "c", agg |-> <<BoolTrue>>]>>

\* The HAVING value of the group a committed row was made from.
HavingOf(n) == HavingEval([agg |-> Committed[n].row.agg]).value

\* C24: with a HAVING projection in the plan, a row is committed only for a
\* group whose HAVING value is not Null and casts to true, and no committed
\* row has the HAVING value as a column; this for every window, the empty
\* window of a plan without GROUP BY included.
C24_HavingFiltersEveryGroup ==
    (queryErr = Success /\ HasHaving) =>
        \A n \in 1..Len(Committed) :
            /\ HavingAlias \notin DOMAIN Committed[n].row
            /\ HavingOf(n) # NullValue
            /\ AsBool(HavingOf(n)).err = Success
            /\ AsBool(HavingOf(n)).value

\* C25: a successful evaluation of the empty window commits exactly one
\* row, made of aggregates over empty arrays, if the plan has no GROUP BY
\* expression, and no row if it has one; a row over empty arrays is
\* committed for the empty window only, so a window whose groups were all
\* removed by HAVING commits no row.
C25_EmptyWindowLaw ==
    queryErr = Success =>
        /\ filteredInputRows = <<>> =>
              /\ Len(Committed) = (IF groupList = <<>> THEN 1 ELSE 0)
              /\ \A n \in 1..Len(Committed) : Committed[n].row.agg = <<>>
        /\ filteredInputRows # <<>> =>
              \A n \in 1..Len(Committed) : Committed[n].row.agg # <<>>

\* A plan without GROUP BY and with HAVING: the evaluation of the empty
\* window committed one row, now in prevResults, and the evaluation of the
\* next window, whose only group HAVING removed, committed none.
C25_Witness ==
    /\ queryErr = Success
    /\ groupList = <<>>
    /\ HasHaving
    /\ filteredInputRows # <<>>
    /\ Committed = <<>>
    /\ Len(Rows(arrays, prevResults)) = 1
    /\ Rows(arrays, prevResults)[1].row.agg = <<>>

\* The evaluators' errors.
QueryErrors == {ErrGroupBy, ErrAggParam, ErrHaving, ErrCast, ErrProjection}

\* What an evaluation of the window commits on a new plan: no cached key,
\* nil result slices.
FreshlyCommitted(window) ==
    LET r == PerformQueryOnBuffer([i \in 1..Len(window) |-> NewRow(window[i].input)],
                                  NilSlice, NilSlice, [a \in ArrayIds |-> <<>>])
    IN  Rows(r.arrays, r.cur)

\* C26: if an evaluator fails during a re-evaluation, performQueryOnBuffer
\* returns the error and curResults holds exactly the rows it held before
\* the call; a later evaluation that succeeds commits what it would commit
\* if no evaluation had failed or happened before.
C26_FailureKeepsCurResults ==
    [][/\ queryErr' \in QueryErrors =>
             Rows(arrays', curResults') = Rows(arrays, curResults)
       /\ queryErr' = Success =>
             Rows(arrays', curResults') = FreshlyCommitted(filteredInputRows')]_vars

\* The cast of a group's HAVING value failed after the row of an earlier
\* group had been appended to output: prevResults shows that row, curResults
\* the two rows of the evaluation before.
C26_Witness ==
    /\ queryErr = ErrCast
    /\ Len(Committed) = 2
    /\ Len(Rows(arrays, prevResults)) = 1
    /\ Rows(arrays, prevResults)[1] # Committed[1]

\* C27: after every call of performQueryOnBuffer, successful or not,
\* prevResults and curResults do not point to the same backing array (two
\* nil slices have none), and the rows that were in curResults before a
\* successful call are the rows of prevResults after it: reusing the older
\* array for output overwrote none of them.
C27_DisjointBackingStorage ==
    [][/\ prevResults'.arr = curResults'.arr => prevResults'.arr = NilArray
       /\ queryErr' = Success =>
             Rows(arrays', prevResults') = Rows(arrays, curResults)]_vars

\* An aggregate parameter failed before output got a row: prevResults is the
\* empty slice on the array reused for output, curResults keeps its two rows
\* on the other array.
C27_Witness ==
    /\ queryErr = ErrAggParam
    /\ prevResults.arr # NilArray
    /\ prevResults.len = 0
    /\ Cap(arrays, prevResults) = 2
    /\ curResults.arr # prevResults.arr
    /\ curResults.len = 2
====
